---- MODULE Spec2Model ----
(***************************************************************************)
(* The OAuth 2.1 authorization-server core of Git-GPT-App                  *)
(* (server/src/mcp-oauth.ts) and the HTTP handlers of server/src/index.ts  *)
(* that drive it: POST /oauth/register, GET /oauth/authorize,              *)
(* POST /oauth/token and POST /mcp.                                        *)
(*                                                                         *)
(* Every handler is a synchronous Express callback (no await before its    *)
(* last store access), so Node runs it to completion: one handler is one   *)
(* action.  Time is Date.now() counted in seconds (the three lifetimes of  *)
(* the source are whole seconds; TLC's integers are 32 bit wide and        *)
(* 30 days in milliseconds does not fit).                                  *)
(*                                                                         *)
(* crypto.randomBytes values (codes, tokens) are modelled as fresh         *)
(* identifiers 1, 2, 3, ... drawn from one counter: the three kinds of     *)
(* secrets share one name space, exactly as the hex strings do.            *)
(***************************************************************************)
EXTENDS Integers, Sequences, FiniteSets, TLC

(* ---------------------------------------------------------------------- *)
(* Bounds of the model                                                     *)
(* ---------------------------------------------------------------------- *)
MaxIds == 4
MaxCodes == 1
MaxClients == 1
MaxTicks == 2
MaxInflight == 2
MaxCalls == 3

(* ---------------------------------------------------------------------- *)
(* Program constants                                                       *)
(* ---------------------------------------------------------------------- *)
TOKEN_EXPIRY_MS == 60 * 60
REFRESH_TOKEN_EXPIRY_MS == 30 * 24 * 60 * 60
AUTH_CODE_EXPIRY_MS == 10 * 60

DefaultClientId == "chatgpt-mcp-client"
DefaultClientSecret == "chatgpt-mcp-secret-key-2024"
DefaultRedirectUris ==
  {"https://chatgpt.com/aip/g-*/oauth/callback",
   "https://chatgpt.com/connector_platform_oauth_redirect",
   "https://platform.openai.com/apps-manage/oauth"}
DynamicRedirectUris == {"https://chatgpt.com/aip/g-*/oauth/callback"}

(* ---------------------------------------------------------------------- *)
(* JavaScript values                                                       *)
(* ---------------------------------------------------------------------- *)
\* undefined (a field or parameter that is not there)
Undef == "<undefined>"
\* a missing identifier (code / token parameter that is not there)
NoId == 0
\* a well-formed identifier that was never issued
UnknownId == 0 - 1

\* JavaScript truthiness of an optional string: undefined and '' are falsy
Truthy(x) == x \notin {Undef, ""}
\* a || b
Or(a, b) == IF Truthy(a) THEN a ELSE b

\* restriction of a store (a Map) to the keys in S
Restrict(f, S) == [k \in (DOMAIN f) \cap S |-> f[k]]
\* Map.delete(k)
Delete(f, k) == Restrict(f, (DOMAIN f) \ {k})
\* Map.set(k, v)
Put(f, k, v) == [x \in (DOMAIN f) \cup {k} |-> IF x = k THEN v ELSE f[x]]

VARIABLES
  now,                 \* Date.now(), in seconds
  ticks,               \* number of clock advances so far
  nextId,              \* the next value crypto.randomBytes returns
  registeredClients,   \* Map client_id -> RegisteredClient
  authorizationCodes,  \* Map code -> AuthorizationCode
  issuedTokens,        \* Map access token -> IssuedToken
  refreshTokens,       \* Map refresh token -> RefreshToken
  inflight,            \* connection -> token request received, not yet handled
  responses,           \* connection -> the response to its request
  codeLog,             \* history: every code issued, as issued
  redeemCount,         \* history: code -> successful redemptions
  pairLog,             \* history: refresh token -> the pair as minted
  rotateCount,         \* history: refresh token -> successful exchanges
  calls,               \* postReviewComments call -> its position and locals
  activeRequests,      \* Map lockKey -> lock promise (named by its call)
  lockPromises,        \* resolved lock promise -> the response it carries
  lockTimers,          \* pending setTimeout callbacks: the lockKey of each
  idempotencyStore,    \* IdempotencyService.store: key -> cached response
  githubReviews,       \* GitHub: the bodies of the reviews on the pull request
  reviewPosts          \* history: the calls that sent a review-creating POST

stores == <<registeredClients, authorizationCodes, issuedTokens, refreshTokens>>
history == <<codeLog, redeemCount, pairLog, rotateCount>>
connections == <<inflight, responses>>
oauth == <<now, ticks, nextId, registeredClients, authorizationCodes,
           issuedTokens, refreshTokens, inflight, responses, codeLog,
           redeemCount, pairLog, rotateCount>>
review == <<calls, activeRequests, lockPromises, lockTimers,
            idempotencyStore, githubReviews, reviewPosts>>
vars == <<now, ticks, nextId, registeredClients, authorizationCodes,
          issuedTokens, refreshTokens, inflight, responses, codeLog,
          redeemCount, pairLog, rotateCount, calls, activeRequests,
          lockPromises, lockTimers, idempotencyStore, githubReviews,
          reviewPosts>>

(* ---------------------------------------------------------------------- *)
(* Client registry                                                         *)
(* ---------------------------------------------------------------------- *)
getOAuthCredentials ==
  [clientId |-> DefaultClientId, clientSecret |-> DefaultClientSecret]

initializeDefaultClient ==
  [c \in {getOAuthCredentials.clientId} |->
     [client_secret |-> getOAuthCredentials.clientSecret,
      redirect_uris |-> DefaultRedirectUris]]

\* client_<hex> and the secret of the n-th dynamic registration
DynClientId(n) == "client_" \o ToString(n)
DynClientSecret(n) == "secret_" \o ToString(n)
NumDynamic == Cardinality(DOMAIN registeredClients) - 1

\* a registration that stores its record under the configured client id
registerClient_Overwrites(request) ==
  Put(registeredClients, getOAuthCredentials.clientId,
      [client_secret |-> DynClientSecret(NumDynamic + 1),
       redirect_uris |-> IF request.has_redirect_uris
                         THEN request.redirect_uris
                         ELSE DynamicRedirectUris])

\* request: [has_redirect_uris, redirect_uris]; the other metadata of a
\* registration is stored and never read by the core
registerClient(request) ==
  Put(registeredClients, DynClientId(NumDynamic + 1),
      [client_secret |-> DynClientSecret(NumDynamic + 1),
       redirect_uris |-> IF request.has_redirect_uris
                         THEN request.redirect_uris
                         ELSE DynamicRedirectUris])

\* a validation that looks at the client id only
validateClientCredentials_IdOnly(clientId, clientSecret) ==
  \/ clientId \in DOMAIN registeredClients
  \/ clientId = getOAuthCredentials.clientId

validateClientCredentials(clientId, clientSecret) ==
  IF clientId \in DOMAIN registeredClients
  THEN registeredClients[clientId].client_secret = clientSecret
  ELSE clientId = getOAuthCredentials.clientId
       /\ clientSecret = getOAuthCredentials.clientSecret

\* a validation that knows every client
validateClientId_Any(clientId) == TRUE

validateClientId(clientId) ==
  \/ clientId \in DOMAIN registeredClients
  \/ clientId = getOAuthCredentials.clientId

(* ---------------------------------------------------------------------- *)
(* PKCE                                                                    *)
(* ---------------------------------------------------------------------- *)
\* crypto.createHash('sha256').update(v).digest('base64url'), tabulated
\* over the verifiers of the model (the digests are the real ones)
Sha256Base64Url(v) ==
  CASE v = "verifier-1" -> "xTYRBLTDt1gS3-rw_3FBVafZ0iNg9bZYBbG8fRPvkEs"
    [] v = "verifier-2" -> "FJO3t0PE8HluwP2_-7vIsnVmjUEqcMhWDRpwAQOBz60"
    [] v = "" -> "47DEQpj8HBSa-_TImW-5JCeuQeRkm5NMpJWZG3hSuFU"

(* ---------------------------------------------------------------------- *)
(* Authorization codes                                                     *)
(* ---------------------------------------------------------------------- *)
\* the record generateAuthorizationCode stores under a new code
AuthorizationCode(clientId, redirectUri, codeChallenge, codeChallengeMethod, scope, resource) ==
  [clientId |-> clientId,
   redirectUri |-> redirectUri,
   codeChallenge |-> codeChallenge,
   codeChallengeMethod |-> codeChallengeMethod,
   expiresAt |-> now + AUTH_CODE_EXPIRY_MS,
   scope |-> scope,
   resource |-> resource]

\* the code is the next random value; the result is the code store
generateAuthorizationCode(clientId, redirectUri, codeChallenge, codeChallengeMethod, scope, resource) ==
  Put(authorizationCodes, nextId,
      AuthorizationCode(clientId, redirectUri, codeChallenge,
                        codeChallengeMethod, scope, resource))

\* a PKCE step that asks for a verifier and never hashes it
pkceError_NoHashCheck(authCode, codeVerifier) ==
  IF Truthy(authCode.codeChallenge) /\ authCode.codeChallengeMethod = "S256"
  THEN IF ~Truthy(codeVerifier) THEN "Code verifier required" ELSE Undef
  ELSE Undef

\* the PKCE step of validateAuthorizationCode: the error it returns, or
\* Undef when it lets the request pass
pkceError(authCode, codeVerifier) ==
  IF Truthy(authCode.codeChallenge) /\ authCode.codeChallengeMethod = "S256"
  THEN IF ~Truthy(codeVerifier) THEN "Code verifier required"
       ELSE IF Sha256Base64Url(codeVerifier) # authCode.codeChallenge
       THEN "Invalid code verifier"
       ELSE Undef
  ELSE Undef

\* a redemption that leaves the code in the store
consumeCode_Keeps(code) == authorizationCodes

\* "Consume the code (one-time use)": authorizationCodes.delete(code)
consumeCode(code) == Delete(authorizationCodes, code)

\* a validation that never looks at the expiry of the code
validateAuthorizationCode_NoExpiry(code, clientId, redirectUri, codeVerifier) ==
  LET fail(msg, store) ==
        [valid |-> FALSE, error |-> msg, scope |-> Undef, resource |-> Undef,
         codes |-> store]
  IN
  IF code \notin DOMAIN authorizationCodes
  THEN fail("Invalid authorization code", authorizationCodes)
  ELSE
    LET authCode == authorizationCodes[code] IN
    IF authCode.clientId # clientId
    THEN fail("Client ID mismatch", authorizationCodes)
    ELSE IF authCode.redirectUri # redirectUri
    THEN fail("Redirect URI mismatch", authorizationCodes)
    ELSE IF pkceError(authCode, codeVerifier) # Undef
    THEN fail(pkceError(authCode, codeVerifier), authorizationCodes)
    ELSE [valid |-> TRUE, error |-> Undef, scope |-> authCode.scope,
          resource |-> authCode.resource,
          codes |-> consumeCode(code)]

\* a validation that consumes the code as soon as it has found it unexpired
validateAuthorizationCode_ConsumesFirst(code, clientId, redirectUri, codeVerifier) ==
  LET fail(msg, store) ==
        [valid |-> FALSE, error |-> msg, scope |-> Undef, resource |-> Undef,
         codes |-> store]
  IN
  IF code \notin DOMAIN authorizationCodes
  THEN fail("Invalid authorization code", authorizationCodes)
  ELSE
    LET authCode == authorizationCodes[code] IN
    IF now > authCode.expiresAt
    THEN fail("Authorization code expired", Delete(authorizationCodes, code))
    ELSE IF authCode.clientId # clientId
    THEN fail("Client ID mismatch", consumeCode(code))
    ELSE IF authCode.redirectUri # redirectUri
    THEN fail("Redirect URI mismatch", consumeCode(code))
    ELSE IF pkceError(authCode, codeVerifier) # Undef
    THEN fail(pkceError(authCode, codeVerifier), consumeCode(code))
    ELSE [valid |-> TRUE, error |-> Undef, scope |-> authCode.scope,
          resource |-> authCode.resource,
          codes |-> consumeCode(code)]

\* result: valid, error, scope, resource and the code store it leaves
validateAuthorizationCode(code, clientId, redirectUri, codeVerifier) ==
  LET fail(msg, store) ==
        [valid |-> FALSE, error |-> msg, scope |-> Undef, resource |-> Undef,
         codes |-> store]
  IN
  IF code \notin DOMAIN authorizationCodes
  THEN fail("Invalid authorization code", authorizationCodes)
  ELSE
    LET authCode == authorizationCodes[code] IN
    IF now > authCode.expiresAt
    THEN fail("Authorization code expired", Delete(authorizationCodes, code))
    ELSE IF authCode.clientId # clientId
    THEN fail("Client ID mismatch", authorizationCodes)
    ELSE IF authCode.redirectUri # redirectUri
    THEN fail("Redirect URI mismatch", authorizationCodes)
    ELSE IF pkceError(authCode, codeVerifier) # Undef
    THEN fail(pkceError(authCode, codeVerifier), authorizationCodes)
    ELSE [valid |-> TRUE, error |-> Undef, scope |-> authCode.scope,
          resource |-> authCode.resource,
          codes |-> consumeCode(code)]

(* ---------------------------------------------------------------------- *)
(* Access tokens and refresh tokens                                        *)
(* ---------------------------------------------------------------------- *)
\* one pass of cleanupExpiredTokens over one store
cleanupExpiredTokens(store) ==
  Restrict(store, {k \in DOMAIN store : ~(now > store[k].expiresAt)})

\* a pair whose refresh token lives as long as its access token
generateTokenPair_ShortRefresh(codes, access, refresh, clientId, scope, resource) ==
  LET accessToken == nextId
      refreshToken == nextId + 1
      accessExpiresAt == now + TOKEN_EXPIRY_MS
      refreshExpiresAt == now + TOKEN_EXPIRY_MS
      access1 == Put(access, accessToken,
                     [expiresAt |-> accessExpiresAt, clientId |-> clientId,
                      scope |-> scope, resource |-> resource,
                      refreshToken |-> refreshToken])
      refresh1 == Put(refresh, refreshToken,
                      [expiresAt |-> refreshExpiresAt, clientId |-> clientId,
                       scope |-> scope, resource |-> resource,
                       accessToken |-> accessToken])
  IN [accessToken |-> accessToken,
      refreshToken |-> refreshToken,
      issuedTokens |-> cleanupExpiredTokens(access1),
      refreshTokens |-> cleanupExpiredTokens(refresh1),
      authorizationCodes |-> cleanupExpiredTokens(codes)]

\* The pair is (nextId, nextId + 1).  codes, access and refresh are the
\* stores the call finds; the result is the stores it leaves, after the
\* sweep that ends it.
generateTokenPair(codes, access, refresh, clientId, scope, resource) ==
  LET accessToken == nextId
      refreshToken == nextId + 1
      accessExpiresAt == now + TOKEN_EXPIRY_MS
      refreshExpiresAt == now + REFRESH_TOKEN_EXPIRY_MS
      access1 == Put(access, accessToken,
                     [expiresAt |-> accessExpiresAt, clientId |-> clientId,
                      scope |-> scope, resource |-> resource,
                      refreshToken |-> refreshToken])
      refresh1 == Put(refresh, refreshToken,
                      [expiresAt |-> refreshExpiresAt, clientId |-> clientId,
                       scope |-> scope, resource |-> resource,
                       accessToken |-> accessToken])
  IN [accessToken |-> accessToken,
      refreshToken |-> refreshToken,
      issuedTokens |-> cleanupExpiredTokens(access1),
      refreshTokens |-> cleanupExpiredTokens(refresh1),
      authorizationCodes |-> cleanupExpiredTokens(codes)]

\* a lookup that leaves expiry to the sweep
validateAccessToken_TrustsSweep(token) ==
  [valid |-> token \in DOMAIN issuedTokens, issuedTokens |-> issuedTokens]

\* a lookup that rejects an expired token and leaves it in the store
validateAccessToken_KeepsExpired(token) ==
  IF token \notin DOMAIN issuedTokens
  THEN [valid |-> FALSE, issuedTokens |-> issuedTokens]
  ELSE IF now > issuedTokens[token].expiresAt
  THEN [valid |-> FALSE, issuedTokens |-> issuedTokens]
  ELSE [valid |-> TRUE, issuedTokens |-> issuedTokens]

\* result: the boolean and the access-token store the lookup leaves
validateAccessToken(token) ==
  IF token \notin DOMAIN issuedTokens
  THEN [valid |-> FALSE, issuedTokens |-> issuedTokens]
  ELSE IF now > issuedTokens[token].expiresAt
  THEN [valid |-> FALSE, issuedTokens |-> Delete(issuedTokens, token)]
  ELSE [valid |-> TRUE, issuedTokens |-> issuedTokens]

\* a lookup that rejects an expired refresh token and leaves it in the store
validateRefreshToken_KeepsExpired(token) ==
  IF token \notin DOMAIN refreshTokens
  THEN [valid |-> FALSE, error |-> "Invalid refresh token",
        clientId |-> Undef, scope |-> Undef, resource |-> Undef,
        refreshTokens |-> refreshTokens]
  ELSE IF now > refreshTokens[token].expiresAt
  THEN [valid |-> FALSE, error |-> "Refresh token expired",
        clientId |-> Undef, scope |-> Undef, resource |-> Undef,
        refreshTokens |-> refreshTokens]
  ELSE [valid |-> TRUE, error |-> Undef,
        clientId |-> refreshTokens[token].clientId,
        scope |-> refreshTokens[token].scope,
        resource |-> refreshTokens[token].resource,
        refreshTokens |-> refreshTokens]

\* result: validity, the token's data and the refresh store the lookup leaves
validateRefreshToken(token) ==
  IF token \notin DOMAIN refreshTokens
  THEN [valid |-> FALSE, error |-> "Invalid refresh token",
        clientId |-> Undef, scope |-> Undef, resource |-> Undef,
        refreshTokens |-> refreshTokens]
  ELSE IF now > refreshTokens[token].expiresAt
  THEN [valid |-> FALSE, error |-> "Refresh token expired",
        clientId |-> Undef, scope |-> Undef, resource |-> Undef,
        refreshTokens |-> Delete(refreshTokens, token)]
  ELSE [valid |-> TRUE, error |-> Undef,
        clientId |-> refreshTokens[token].clientId,
        scope |-> refreshTokens[token].scope,
        resource |-> refreshTokens[token].resource,
        refreshTokens |-> refreshTokens]

\* a revocation that forgets the refresh token itself
revokeRefreshToken_KeepsRefresh(access, refresh, token) ==
  [issuedTokens |->
     IF token \in DOMAIN refresh
     THEN Delete(access, refresh[token].accessToken)
     ELSE access,
   refreshTokens |-> refresh]

\* a revocation that forgets the linked access token
revokeRefreshToken_KeepsAccess(access, refresh, token) ==
  [issuedTokens |-> access, refreshTokens |-> Delete(refresh, token)]

\* access and refresh are the stores the call finds
revokeRefreshToken(access, refresh, token) ==
  [issuedTokens |->
     IF token \in DOMAIN refresh
     THEN Delete(access, refresh[token].accessToken)
     ELSE access,
   refreshTokens |-> Delete(refresh, token)]

\* an extraction that takes the credential of any scheme
extractBearerToken_AnyScheme(authHeader) == authHeader.token

\* authHeader.startsWith('Bearer ') ? authHeader.slice(7) : null
\* a header is [scheme, token] (scheme "none": no header); the result NoId
\* stands for null
extractBearerToken(authHeader) ==
  IF authHeader.scheme # "Bearer" THEN NoId ELSE authHeader.token

(* ---------------------------------------------------------------------- *)
(* POST /oauth/token                                                       *)
(* ---------------------------------------------------------------------- *)
\* A request: the body fields and the Basic Authorization header, if any
\* (basic, basic_id, basic_secret).
authClientId(req) ==
  IF req.basic THEN Or(req.client_id, req.basic_id) ELSE req.client_id
authClientSecret(req) ==
  IF req.basic THEN Or(req.client_secret, req.basic_secret)
  ELSE req.client_secret

\* an error response; the three stores are the ones the handler leaves
TokenError(status, error, description, codes, access, refresh) ==
  [status |-> status, error |-> error, error_description |-> description,
   access_token |-> NoId, refresh_token |-> NoId, scope |-> Undef,
   authorizationCodes |-> codes, issuedTokens |-> access,
   refreshTokens |-> refresh]

\* getTokenResponse on the pair that generateTokenPair made
TokenSuccess(pair, scope) ==
  [status |-> 200, error |-> Undef, error_description |-> Undef,
   access_token |-> pair.accessToken, refresh_token |-> pair.refreshToken,
   scope |-> IF Truthy(scope) THEN scope ELSE Undef,
   authorizationCodes |-> pair.authorizationCodes,
   issuedTokens |-> pair.issuedTokens,
   refreshTokens |-> pair.refreshTokens]

AuthorizationCodeGrant(req) ==
  IF req.code = NoId
  THEN TokenError(400, "invalid_request", "Missing authorization code",
                  authorizationCodes, issuedTokens, refreshTokens)
  ELSE IF ~Truthy(req.redirect_uri)
  THEN TokenError(400, "invalid_request", "Missing redirect_uri",
                  authorizationCodes, issuedTokens, refreshTokens)
  ELSE
    LET validation ==
          validateAuthorizationCode(req.code, Or(authClientId(req), ""),
                                    req.redirect_uri, req.code_verifier)
    IN IF ~validation.valid
       THEN TokenError(400, "invalid_grant", validation.error,
                       validation.codes, issuedTokens, refreshTokens)
       ELSE
         LET tokenResource == Or(validation.resource, req.resource)
         IN TokenSuccess(
              generateTokenPair(validation.codes, issuedTokens, refreshTokens,
                                Or(authClientId(req), "chatgpt"),
                                validation.scope, tokenResource),
              validation.scope)

\* a refresh grant open to every client
clientMatches_Skipped(validation, req) == TRUE

\* "Verify client matches" of the refresh_token grant
clientMatches(validation, req) == validation.clientId = authClientId(req)

RefreshTokenGrant(req) ==
  IF req.refresh_token = NoId
  THEN TokenError(400, "invalid_request", "Missing refresh_token",
                  authorizationCodes, issuedTokens, refreshTokens)
  ELSE
    LET validation == validateRefreshToken(req.refresh_token) IN
    IF ~validation.valid
    THEN TokenError(401, "invalid_grant", validation.error,
                    authorizationCodes, issuedTokens,
                    validation.refreshTokens)
    ELSE IF ~clientMatches(validation, req)
    THEN TokenError(401, "invalid_grant", "Client ID mismatch",
                    authorizationCodes, issuedTokens,
                    validation.refreshTokens)
    ELSE
      LET revoked == revokeRefreshToken(issuedTokens,
                                        validation.refreshTokens,
                                        req.refresh_token)
          tokenResource == Or(validation.resource, req.resource)
      IN TokenSuccess(
           generateTokenPair(authorizationCodes, revoked.issuedTokens,
                             revoked.refreshTokens,
                             Or(authClientId(req), "chatgpt"),
                             validation.scope, tokenResource),
           validation.scope)

\* a grant that mints the pair before it looks at the credentials
ClientCredentialsGrant_MintsFirst(req) ==
  LET pair == generateTokenPair(authorizationCodes, issuedTokens,
                                refreshTokens, authClientId(req), Undef,
                                req.resource)
  IN IF ~validateClientCredentials(authClientId(req), authClientSecret(req))
     THEN TokenError(401, "invalid_client", "Invalid client credentials",
                     pair.authorizationCodes, pair.issuedTokens,
                     pair.refreshTokens)
     ELSE TokenSuccess(pair, Undef)

ClientCredentialsGrant(req) ==
  IF ~validateClientCredentials(authClientId(req), authClientSecret(req))
  THEN TokenError(401, "invalid_client", "Invalid client credentials",
                  authorizationCodes, issuedTokens, refreshTokens)
  ELSE TokenSuccess(
         generateTokenPair(authorizationCodes, issuedTokens, refreshTokens,
                           authClientId(req), Undef, req.resource),
         Undef)

\* the response of POST /oauth/token to req and the stores it leaves
TokenEndpoint(req) ==
  IF req.grant_type = "authorization_code" THEN AuthorizationCodeGrant(req)
  ELSE IF req.grant_type = "refresh_token" THEN RefreshTokenGrant(req)
  ELSE IF req.grant_type = "client_credentials"
  THEN ClientCredentialsGrant(req)
  ELSE TokenError(400, "unsupported_grant_type",
                  "Supported grant types: authorization_code, client_credentials, refresh_token",
                  authorizationCodes, issuedTokens, refreshTokens)

(* ---------------------------------------------------------------------- *)
(* GET /oauth/authorize                                                    *)
(* ---------------------------------------------------------------------- *)
\* the response to the query q and the code store it leaves
AuthorizeEndpoint(q) ==
  IF ~Truthy(q.client_id) \/ ~validateClientId(q.client_id)
  THEN [status |-> 400, error |-> "invalid_client", code |-> NoId,
        authorizationCodes |-> authorizationCodes]
  ELSE IF q.response_type # "code"
  THEN [status |-> 400, error |-> "unsupported_response_type", code |-> NoId,
        authorizationCodes |-> authorizationCodes]
  ELSE IF ~Truthy(q.redirect_uri)
  THEN [status |-> 400, error |-> "invalid_request", code |-> NoId,
        authorizationCodes |-> authorizationCodes]
  ELSE [status |-> 302, error |-> Undef, code |-> nextId,
        authorizationCodes |->
          generateAuthorizationCode(q.client_id, q.redirect_uri,
                                    q.code_challenge, q.code_challenge_method,
                                    q.scope, q.resource)]

(* ---------------------------------------------------------------------- *)
(* POST /mcp                                                               *)
(* ---------------------------------------------------------------------- *)
\* req: the Authorization header and the JSON-RPC method of the body.
\* handled tells whether handleMCPRequest is called.
McpEndpoint(req) ==
  LET token == extractBearerToken(req.authorization)
      check == validateAccessToken(token)
  IN IF token = NoId
     THEN [status |-> 401, wwwAuthenticate |-> TRUE, handled |-> FALSE,
           issuedTokens |-> issuedTokens]
     ELSE IF ~check.valid
     THEN [status |-> 401, wwwAuthenticate |-> TRUE, handled |-> FALSE,
           issuedTokens |-> check.issuedTokens]
     ELSE IF ~Truthy(req.method)
     THEN [status |-> 400, wwwAuthenticate |-> FALSE, handled |-> FALSE,
           issuedTokens |-> check.issuedTokens]
     ELSE [status |-> 200, wwwAuthenticate |-> FALSE, handled |-> TRUE,
           issuedTokens |-> check.issuedTokens]

(* ---------------------------------------------------------------------- *)
(* The requests of the model                                               *)
(* ---------------------------------------------------------------------- *)
ClientIdInputs == {Undef, DefaultClientId} \cup {DynClientId(n) : n \in 1..MaxClients}
SecretInputs == {Undef, DefaultClientSecret} \cup {DynClientSecret(n) : n \in 1..MaxClients}
\* redirect_uri of an authorization request / of a token request
AuthorizeRedirectInputs ==
  {Undef, "https://chatgpt.com/connector_platform_oauth_redirect"}
RedirectInputs == AuthorizeRedirectInputs \cup {"https://attacker.example/callback"}
VerifierInputs == {Undef, "verifier-1", "verifier-2"}
\* <<code_challenge, code_challenge_method>> of an authorization request
PkceInputs ==
  {<<Undef, Undef>>, <<Sha256Base64Url("verifier-1"), "S256">>,
   <<"", "S256">>, <<Sha256Base64Url("verifier-1"), Undef>>}
ScopeInputs == {Undef}
ResourceInputs == {Undef}
BodyResourceInputs == {Undef}
StepInputs == {1, AUTH_CODE_EXPIRY_MS, TOKEN_EXPIRY_MS, REFRESH_TOKEN_EXPIRY_MS}

\* client credentials as a request carries them: in the body, or in a
\* Basic header next to an empty body
BodyCredentials(ids, secrets) ==
  [client_id : ids, client_secret : secrets, basic : {FALSE},
   basic_id : {Undef}, basic_secret : {Undef}]
BasicCredentials ==
  [client_id : {Undef}, client_secret : {Undef}, basic : {TRUE},
   basic_id : {DefaultClientId}, basic_secret : {DefaultClientSecret}]

TokenRequest(grant, cred, code, redirect, verifier, refresh, resource) ==
  [grant_type |-> grant, client_id |-> cred.client_id,
   client_secret |-> cred.client_secret, basic |-> cred.basic,
   basic_id |-> cred.basic_id, basic_secret |-> cred.basic_secret,
   code |-> code, redirect_uri |-> redirect, code_verifier |-> verifier,
   refresh_token |-> refresh, resource |-> resource]

\* identifiers a request can present: none, one never issued, any issued
CodeInputs == {NoId, UnknownId} \cup DOMAIN codeLog
RefreshInputs == {NoId, UnknownId} \cup DOMAIN pairLog
AccessInputs == {NoId, UnknownId} \cup {pairLog[r].accessToken : r \in DOMAIN pairLog}

AuthorizationCodeRequests ==
  {TokenRequest("authorization_code", cred, code, redirect, verifier, NoId, resource) :
     cred \in BodyCredentials(ClientIdInputs, {Undef}) \cup BasicCredentials,
     code \in CodeInputs, redirect \in RedirectInputs,
     verifier \in VerifierInputs, resource \in BodyResourceInputs}
RefreshTokenRequests ==
  {TokenRequest("refresh_token", cred, NoId, Undef, Undef, refresh, resource) :
     cred \in BodyCredentials(ClientIdInputs, {Undef}) \cup BasicCredentials,
     refresh \in RefreshInputs, resource \in BodyResourceInputs}
ClientCredentialsRequests ==
  {TokenRequest("client_credentials", cred, NoId, Undef, Undef, NoId, resource) :
     cred \in BodyCredentials(ClientIdInputs, SecretInputs) \cup BasicCredentials,
     resource \in BodyResourceInputs}
OtherGrantRequests ==
  {TokenRequest("password", cred, NoId, Undef, Undef, NoId, Undef) :
     cred \in BodyCredentials({DefaultClientId}, {DefaultClientSecret})}
TokenRequests ==
  AuthorizationCodeRequests \cup RefreshTokenRequests
    \cup ClientCredentialsRequests \cup OtherGrantRequests

AuthorizeQueries ==
  {[client_id |-> c, redirect_uri |-> uri, response_type |-> type,
    code_challenge |-> pkce[1], code_challenge_method |-> pkce[2],
    scope |-> scope, resource |-> resource] :
     c \in ClientIdInputs, uri \in AuthorizeRedirectInputs,
     type \in {"code", "token"}, pkce \in PkceInputs,
     scope \in ScopeInputs, resource \in ResourceInputs}

RegistrationRequests ==
  {[has_redirect_uris |-> FALSE, redirect_uris |-> {}]}

NoHeader == [scheme |-> "none", token |-> NoId]
AuthorizationHeaders ==
  {NoHeader} \cup [scheme : {"Basic", "Bearer"}, token : AccessInputs]
McpRequests == [authorization : AuthorizationHeaders, method : {Undef, "tools/call"}]

(* ---------------------------------------------------------------------- *)
(* The state machine                                                       *)
(* ---------------------------------------------------------------------- *)
Init ==
  /\ now = 0
  /\ ticks = 0
  /\ nextId = 1
  /\ registeredClients = initializeDefaultClient
  /\ authorizationCodes = << >>
  /\ issuedTokens = << >>
  /\ refreshTokens = << >>
  /\ inflight = << >>
  /\ responses = << >>
  /\ codeLog = << >>
  /\ redeemCount = << >>
  /\ pairLog = << >>
  /\ rotateCount = << >>
  /\ calls = << >>
  /\ activeRequests = << >>
  /\ lockPromises = << >>
  /\ lockTimers = << >>
  /\ idempotencyStore = << >>
  /\ githubReviews = << >>
  /\ reviewPosts = {}

\* the clock advances
Tick(d) ==
  /\ ticks < MaxTicks
  /\ ticks' = ticks + 1
  /\ now' = now + d
  /\ UNCHANGED <<review, nextId, stores, connections, history>>

\* POST /oauth/register
PostRegister(request) ==
  /\ NumDynamic < MaxClients
  /\ registeredClients' = registerClient(request)
  /\ UNCHANGED <<review, now, ticks, nextId, authorizationCodes, issuedTokens,
                 refreshTokens, connections, history>>

\* GET /oauth/authorize
GetAuthorize(q) ==
  LET out == AuthorizeEndpoint(q) IN
  /\ out.status = 302 =>
       nextId <= MaxIds /\ Cardinality(DOMAIN codeLog) < MaxCodes
  /\ authorizationCodes' = out.authorizationCodes
  /\ nextId' = IF out.status = 302 THEN nextId + 1 ELSE nextId
  /\ codeLog' = IF out.status = 302
                THEN Put(codeLog, out.code, out.authorizationCodes[out.code])
                ELSE codeLog
  /\ redeemCount' = IF out.status = 302 THEN Put(redeemCount, out.code, 0)
                    ELSE redeemCount
  /\ UNCHANGED <<review, now, ticks, registeredClients, issuedTokens, refreshTokens,
                 connections, pairLog, rotateCount>>

\* the handler of POST /oauth/token runs on req
HandleToken(req) ==
  LET out == TokenEndpoint(req)
      minted == out.status = 200
  IN
  /\ minted => nextId + 1 <= MaxIds
  /\ authorizationCodes' = out.authorizationCodes
  /\ issuedTokens' = out.issuedTokens
  /\ refreshTokens' = out.refreshTokens
  /\ nextId' = IF minted THEN nextId + 2 ELSE nextId
  /\ redeemCount' =
       IF minted /\ req.grant_type = "authorization_code"
       THEN [redeemCount EXCEPT ![req.code] = @ + 1] ELSE redeemCount
  /\ rotateCount' =
       IF ~minted THEN rotateCount
       ELSE IF req.grant_type = "refresh_token"
       THEN Put([rotateCount EXCEPT ![req.refresh_token] = @ + 1],
                out.refresh_token, 0)
       ELSE Put(rotateCount, out.refresh_token, 0)
  /\ pairLog' =
       IF ~minted THEN pairLog
       ELSE Put(pairLog, out.refresh_token,
                [accessToken |-> out.access_token,
                 clientId |-> out.refreshTokens[out.refresh_token].clientId,
                 scope |-> out.refreshTokens[out.refresh_token].scope,
                 resource |-> out.refreshTokens[out.refresh_token].resource,
                 issuedAt |-> now,
                 grant_type |-> req.grant_type,
                 from |-> IF req.grant_type = "authorization_code"
                          THEN req.code ELSE req.refresh_token])
  /\ UNCHANGED <<review, now, ticks, registeredClients, codeLog>>

\* POST /oauth/token, handled as it arrives
PostToken(req) == HandleToken(req) /\ UNCHANGED connections

\* POST /mcp
PostMcp(req) ==
  /\ issuedTokens' = McpEndpoint(req).issuedTokens
  /\ UNCHANGED <<review, now, ticks, nextId, registeredClients, authorizationCodes,
                 refreshTokens, connections, history>>

Next ==
  \/ \E d \in StepInputs : Tick(d)
  \/ \E request \in RegistrationRequests : PostRegister(request)
  \/ \E q \in AuthorizeQueries : GetAuthorize(q)
  \/ \E req \in TokenRequests : PostToken(req)
  \/ \E req \in McpRequests : PostMcp(req)

Spec == Init /\ [][Next]_vars

(* ---------------------------------------------------------------------- *)
(* Requests in flight                                                      *)
(* ---------------------------------------------------------------------- *)
(* Several token requests can be open at once.  The handler has no await:  *)
(* the event loop runs it to completion for one request before it starts   *)
(* it for another, in any order of the open requests.                      *)

\* the verifier a client holds for the code record: the preimage of the
\* challenge when S256 is asked for, none otherwise
VerifiersFor(record) ==
  IF Truthy(record.codeChallenge) /\ record.codeChallengeMethod = "S256"
  THEN {v \in VerifierInputs \ {Undef} :
          Sha256Base64Url(v) = record.codeChallenge}
  ELSE {Undef}

\* The requests that race: for a stored code, the redemption its own client
\* sends; for a stored refresh token, an exchange sent by any client.
ConcurrentRequests ==
  {TokenRequest("authorization_code", cred, c,
                authorizationCodes[c].redirectUri, verifier, NoId, Undef) :
     c \in DOMAIN authorizationCodes,
     cred \in BodyCredentials(ClientIdInputs \ {Undef}, {Undef}),
     verifier \in VerifierInputs}
  \cup
  {TokenRequest("refresh_token", cred, NoId, Undef, Undef, r, Undef) :
     r \in DOMAIN refreshTokens,
     cred \in BodyCredentials(ClientIdInputs \ {Undef}, {Undef})}

OtherwiseValid(req) ==
  req.grant_type = "authorization_code" =>
    /\ req.client_id = authorizationCodes[req.code].clientId
    /\ req.code_verifier \in VerifiersFor(authorizationCodes[req.code])

Connections == 1..MaxInflight
FreeConnections == Connections \ (DOMAIN inflight \cup DOMAIN responses)

\* a token request arrives and waits for the event loop
Receive(req) ==
  /\ FreeConnections # {}
  /\ OtherwiseValid(req)
  /\ inflight' = Put(inflight, CHOOSE k \in FreeConnections :
                                 \A j \in FreeConnections : k <= j, req)
  /\ UNCHANGED <<review, now, ticks, nextId, stores, responses, history>>

\* the event loop runs the handler for one of the waiting requests
Dispatch(k) ==
  LET req == inflight[k]
      out == TokenEndpoint(req)
  IN /\ HandleToken(req)
     /\ inflight' = Delete(inflight, k)
     /\ responses' = Put(responses, k,
                         [req |-> req, at |-> now,
                          open |-> DOMAIN inflight \ {k},
                          status |-> out.status,
                          error |-> out.error,
                          error_description |-> out.error_description,
                          refresh_token |-> out.refresh_token])

\* While requests race the clock steps over the lifetimes they depend on.
ConcStepInputs == {1, AUTH_CODE_EXPIRY_MS, REFRESH_TOKEN_EXPIRY_MS}

NextConc ==
  \/ \E d \in ConcStepInputs : Tick(d)
  \/ \E q \in AuthorizeQueries : GetAuthorize(q)
  \/ \E req \in ClientCredentialsRequests \cup OtherGrantRequests : PostToken(req)
  \/ \E req \in ConcurrentRequests : Receive(req)
  \/ \E k \in DOMAIN inflight : Dispatch(k)
  \/ \E req \in McpRequests : PostMcp(req)

SpecConc == Init /\ [][NextConc]_vars

(* ---------------------------------------------------------------------- *)
(* Vocabulary of the properties                                            *)
(* ---------------------------------------------------------------------- *)
\* the record's expiry has not passed (the code's test is Date.now() > expiresAt)
Unexpired(record) == ~(now > record.expiresAt)

\* a token request that reaches validateAuthorizationCode with code c
RedemptionAttempts(c) ==
  {req \in AuthorizationCodeRequests : req.code = c /\ Truthy(req.redirect_uri)}

\* the code record asks for an S256 proof
VerifierRequired(record) ==
  Truthy(record.codeChallenge) /\ record.codeChallengeMethod = "S256"

\* req carries the owning client, the recorded redirect URI and, if one is
\* required, the right verifier
MatchesCode(req, record) ==
  /\ authClientId(req) = record.clientId
  /\ req.redirect_uri = record.redirectUri
  /\ VerifierRequired(record) =>
       /\ Truthy(req.code_verifier)
       /\ Sha256Base64Url(req.code_verifier) = record.codeChallenge

\* the response leaves the token stores as they are
MintsNothing(out) ==
  /\ out.access_token = NoId
  /\ out.refresh_token = NoId
  /\ out.issuedTokens = issuedTokens
  /\ out.refreshTokens = refreshTokens

(* ---------------------------------------------------------------------- *)
(* Properties                                                              *)
(* ---------------------------------------------------------------------- *)

\* C1: every authorization code issued is redeemed at most once: a token
\* request that presents it before its expiry with the owning client, the
\* recorded redirect URI and (if required) the right verifier is answered 200
\* as long as no request has redeemed it, and once a request has redeemed it
\* every attempt that presents it is answered 400 invalid_grant.
C1_CodeRedeemedOnce ==
  \A c \in DOMAIN codeLog :
    /\ redeemCount[c] <= 1
    /\ \A req \in RedemptionAttempts(c) :
         LET out == TokenEndpoint(req) IN
         /\ (/\ redeemCount[c] = 0
             /\ Unexpired(codeLog[c])
             /\ MatchesCode(req, codeLog[c])) => out.status = 200
         /\ redeemCount[c] >= 1 =>
              /\ out.status = 400
              /\ out.error = "invalid_grant"
              /\ MintsNothing(out)

\* C1 witness: a code has been redeemed
C1_Witness == \E c \in DOMAIN codeLog : redeemCount[c] = 1

\* The S256 clause of C2 for the codes whose stored challenge is in H:
\* only a request whose verifier hashes to the challenge redeems the code,
\* any other attempt is answered invalid_grant and mints nothing.
S256Binding(H) ==
  \A c \in DOMAIN authorizationCodes :
    LET record == authorizationCodes[c] IN
    (record.codeChallenge \in H /\ record.codeChallengeMethod = "S256") =>
      \A req \in RedemptionAttempts(c) :
        LET out == TokenEndpoint(req)
            proves == /\ Truthy(req.code_verifier)
                      /\ Sha256Base64Url(req.code_verifier) = record.codeChallenge
        IN /\ out.status = 200 => proves
           /\ ~proves => out.error = "invalid_grant" /\ MintsNothing(out)

\* the challenges an authorization request can carry
Challenges == {pkce[1] : pkce \in PkceInputs} \ {Undef}

\* C2 (as amended): a code stored with a non-empty code_challenge H and
\* code_challenge_method S256 is redeemed only by a request whose verifier v
\* has base64url(SHA-256(v)) = H; a request with no verifier or with a
\* verifier whose hash differs from H fails and issues no token.
C2_S256Binding == S256Binding(Challenges \ {""})

\* C2 as stated: the same for every stored code_challenge, the empty one
\* (code_challenge= in the query) included.
C2_Original == S256Binding(Challenges)

\* C2 witness: an S256-bound code is in the store and has not expired
C2_Witness ==
  \E c \in DOMAIN authorizationCodes :
    /\ VerifierRequired(authorizationCodes[c])
    /\ Unexpired(authorizationCodes[c])

\* token requests of the refresh_token grant that present r
RefreshAttempts(r) ==
  {req \in RefreshTokenRequests : req.refresh_token = r}

\* C3: a refresh token is accepted from its owning client as long as it has
\* not been exchanged and 30 days have not passed since it was minted, and a
\* request that presents it is accepted in no state after its exchange or
\* its expiry; no refresh token is exchanged twice.
C3_RefreshTokenLifetime ==
  \A r \in DOMAIN pairLog :
    LET fresh == /\ rotateCount[r] = 0
                 /\ ~(now > pairLog[r].issuedAt + REFRESH_TOKEN_EXPIRY_MS)
    IN /\ rotateCount[r] <= 1
       /\ \A req \in RefreshAttempts(r) :
            LET out == TokenEndpoint(req) IN
            /\ (fresh /\ authClientId(req) = pairLog[r].clientId) =>
                 out.status = 200
            /\ ~fresh =>
                 /\ out.status = 401
                 /\ out.error = "invalid_grant"
                 /\ out.access_token = NoId
                 /\ out.refresh_token = NoId

\* C3 witness: one refresh token has been exchanged and another one has
\* outlived its 30 days
C3_Witness ==
  /\ \E r \in DOMAIN pairLog : rotateCount[r] = 1
  /\ \E r \in DOMAIN pairLog :
       /\ rotateCount[r] = 0
       /\ now > pairLog[r].issuedAt + REFRESH_TOKEN_EXPIRY_MS

\* the pairs minted by a refresh exchange
Rotations == {r \in DOMAIN pairLog : pairLog[r].grant_type = "refresh_token"}

\* C4: a refresh exchange returns an access token and a refresh token that
\* both differ from the tokens of the redeemed pair, and from the exchange on
\* validateAccessToken rejects the access token of the redeemed pair, whether
\* or not its hour has passed.
C4_RotationReplacesBoth ==
  \A new \in Rotations :
    LET old == pairLog[new].from IN
    /\ {new, pairLog[new].accessToken} \cap {old, pairLog[old].accessToken} = {}
    /\ new # pairLog[new].accessToken
    /\ ~validateAccessToken(pairLog[old].accessToken).valid

\* C4 witness: right after an exchange, within the hour of the redeemed
\* access token
C4_Witness ==
  \E new \in Rotations :
    /\ pairLog[new].issuedAt = now
    /\ ~(now > pairLog[pairLog[new].from].issuedAt + TOKEN_EXPIRY_MS)
    /\ pairLog[new].accessToken \in DOMAIN issuedTokens

\* C5: a refresh request whose client differs from the owner of a present,
\* unexpired refresh token is answered 401 invalid_grant, mints nothing and
\* leaves every store as it is (so the token and its access token stay valid
\* for the owner).
C5_ClientMismatch ==
  \A r \in DOMAIN refreshTokens :
    Unexpired(refreshTokens[r]) =>
      \A req \in RefreshAttempts(r) :
        authClientId(req) # refreshTokens[r].clientId =>
          LET out == TokenEndpoint(req) IN
          /\ out.status = 401
          /\ out.error = "invalid_grant"
          /\ MintsNothing(out)
          /\ out.authorizationCodes = authorizationCodes

\* C5 witness: an unexpired refresh token with an unexpired access token,
\* and a registered client that does not own it
C5_Witness ==
  \E r \in DOMAIN refreshTokens :
    /\ Unexpired(refreshTokens[r])
    /\ refreshTokens[r].accessToken \in DOMAIN issuedTokens
    /\ Unexpired(issuedTokens[refreshTokens[r].accessToken])
    /\ \E c \in DOMAIN registeredClients : c # refreshTokens[r].clientId

\* the connections whose request presented refresh token r / code c and
\* has been answered
ExchangesDone(r) ==
  {k \in DOMAIN responses :
     /\ responses[k].req.grant_type = "refresh_token"
     /\ responses[k].req.refresh_token = r}
RedemptionsDone(c) ==
  {k \in DOMAIN responses :
     /\ responses[k].req.grant_type = "authorization_code"
     /\ responses[k].req.code = c}

\* C6: of the refresh requests that are open at the same time and present
\* the same refresh token, at most one mints a pair, in whatever order the
\* handlers run; every other one is answered 401 invalid_grant (and a request
\* still waiting when the token has been exchanged will be).
C6_ConcurrentRefresh ==
  \A r \in DOMAIN pairLog :
    /\ rotateCount[r] <= 1
    /\ Cardinality({k \in ExchangesDone(r) : responses[k].status = 200}) <= 1
    /\ \A k \in ExchangesDone(r) :
         responses[k].status # 200 =>
           /\ responses[k].status = 401
           /\ responses[k].error = "invalid_grant"
           /\ responses[k].refresh_token = NoId
    /\ rotateCount[r] >= 1 =>
         \A k \in DOMAIN inflight :
           inflight[k].refresh_token = r =>
             /\ TokenEndpoint(inflight[k]).status = 401
             /\ TokenEndpoint(inflight[k]).error = "invalid_grant"

\* C6 witness: two requests with the same refresh token, sent by its owner,
\* were open together; one minted, the other was refused
C6_Witness ==
  \E r \in DOMAIN pairLog : \E k, j \in ExchangesDone(r) :
    /\ j \in responses[k].open
    /\ responses[k].req.client_id = pairLog[r].clientId
    /\ responses[j].req.client_id = pairLog[r].clientId
    /\ responses[k].status = 200
    /\ responses[j].status = 401

\* C7: of the otherwise valid redemptions of one code that are handled
\* before its expiry, exactly one succeeds, in whatever order the handlers
\* run; each of the others finds the code absent (400 invalid_grant,
\* "Invalid authorization code"), as will a request still waiting.
C7_ConcurrentRedemption ==
  \A c \in DOMAIN codeLog :
    LET inTime == {k \in RedemptionsDone(c) :
                     ~(responses[k].at > codeLog[c].expiresAt)}
        winners == {k \in inTime : responses[k].status = 200}
    IN /\ inTime # {} => Cardinality(winners) = 1
       /\ \A k \in RedemptionsDone(c) \ winners :
            /\ responses[k].status = 400
            /\ responses[k].error = "invalid_grant"
            /\ inTime # {} =>
                 responses[k].error_description = "Invalid authorization code"
       /\ redeemCount[c] >= 1 =>
            \A k \in DOMAIN inflight :
              inflight[k].code = c =>
                TokenEndpoint(inflight[k]).error_description
                  = "Invalid authorization code"

\* C7 witness: two valid redemptions of one code were open together and both
\* were handled before the code expired
C7_Witness ==
  \E c \in DOMAIN codeLog : \E k, j \in RedemptionsDone(c) :
    /\ j \in responses[k].open
    /\ ~(responses[j].at > codeLog[c].expiresAt)
    /\ responses[k].status = 200
    /\ responses[j].status = 400

\* every identifier in use, and two that are not
AnyToken ==
  AccessInputs \cup DOMAIN issuedTokens \cup DOMAIN refreshTokens
    \cup DOMAIN codeLog

\* the answer of validateAccessToken, in every state and for every token
C8_Answer ==
  /\ \A t \in AnyToken :
       LET check == validateAccessToken(t)
           present == t \in DOMAIN issuedTokens
       IN /\ check.valid <=> (present /\ Unexpired(issuedTokens[t]))
          /\ (present /\ ~Unexpired(issuedTokens[t])) =>
               check.issuedTokens = Delete(issuedTokens, t)
          /\ (~present \/ Unexpired(issuedTokens[t])) =>
               check.issuedTokens = issuedTokens
  /\ \A r \in DOMAIN pairLog :
       pairLog[r].accessToken \in DOMAIN issuedTokens =>
         issuedTokens[pairLog[r].accessToken].expiresAt
           = pairLog[r].issuedAt + TOKEN_EXPIRY_MS

\* a step that takes access tokens out of the store and mints nothing (the
\* lookup of POST /mcp) takes out one expired entry and changes nothing else
C8_Lookup ==
  (issuedTokens' # issuedTokens /\ nextId' = nextId) =>
    /\ \E t \in DOMAIN issuedTokens :
         /\ ~Unexpired(issuedTokens[t])
         /\ issuedTokens' = Delete(issuedTokens, t)
    /\ UNCHANGED <<now, registeredClients, authorizationCodes, refreshTokens>>

\* C8: validateAccessToken(t) is true exactly when t is in the access-token
\* store and its expiry, one hour after issuance, has not passed; it is false
\* for an absent and for an expired token, and the lookup of an expired token
\* removes that entry and changes nothing else.
C8_ValidateAccessToken == []C8_Answer /\ [][C8_Lookup]_vars

\* C8 witness: a lookup has removed an expired access token (no pair was
\* minted after its expiry, so no sweep has run) while another access token
\* is valid
C8_Witness ==
  /\ \E r \in DOMAIN refreshTokens :
       /\ refreshTokens[r].accessToken \notin DOMAIN issuedTokens
       /\ \A other \in DOMAIN pairLog :
            ~(pairLog[other].issuedAt > pairLog[r].issuedAt + TOKEN_EXPIRY_MS)
  /\ \E t \in DOMAIN issuedTokens : validateAccessToken(t).valid

\* the access token of request req is in the store and has not expired
Accepted(req) ==
  /\ req.authorization.scheme = "Bearer"
  /\ req.authorization.token \in DOMAIN issuedTokens
  /\ Unexpired(issuedTokens[req.authorization.token])

\* C9: POST /mcp runs handleMCPRequest only for a request whose Authorization
\* header is 'Bearer <t>' with t a stored, unexpired access token; a request
\* with no header, another scheme, an unknown, revoked or expired token is
\* answered 401 with WWW-Authenticate and runs nothing.
C9_BearerGate ==
  /\ \A req \in McpRequests :
       LET out == McpEndpoint(req) IN
       /\ out.handled => Accepted(req)
       /\ ~Accepted(req) =>
            /\ out.status = 401
            /\ out.wwwAuthenticate
            /\ ~out.handled
  /\ \A new \in Rotations :
       \A req \in McpRequests :
         (/\ req.authorization.scheme = "Bearer"
          /\ req.authorization.token = pairLog[pairLog[new].from].accessToken)
           => McpEndpoint(req).status = 401

\* C9 witness: one access token is accepted while another one is expired
\* and still in the store
C9_Witness ==
  /\ \E req \in McpRequests : McpEndpoint(req).handled
  /\ \E t \in DOMAIN issuedTokens : ~Unexpired(issuedTokens[t])

\* the refresh records that name access token a / the access records that
\* name refresh token r
RefreshOf(a) == {r \in DOMAIN refreshTokens : refreshTokens[r].accessToken = a}
AccessOf(r) == {a \in DOMAIN issuedTokens : issuedTokens[a].refreshToken = r}

\* C10 as stated: every access-token record has exactly one refresh-token
\* record in the refresh store that names it, and every refresh-token record
\* has exactly one access-token record in the access store that names it.
C10_Original ==
  /\ \A a \in DOMAIN issuedTokens :
       /\ Cardinality(RefreshOf(a)) = 1
       /\ issuedTokens[a].refreshToken \in RefreshOf(a)
  /\ \A r \in DOMAIN refreshTokens :
       /\ Cardinality(AccessOf(r)) = 1
       /\ refreshTokens[r].accessToken \in AccessOf(r)

\* C10 (as amended): every access-token record whose expiry has not passed
\* has exactly one refresh-token record in the refresh store that names it,
\* the one it names itself; every refresh-token record is named by no
\* access-token record other than the one it names, which may be gone from
\* the store once it has expired.
C10_Pairing ==
  /\ \A a \in DOMAIN issuedTokens :
       Unexpired(issuedTokens[a]) =>
         RefreshOf(a) = {issuedTokens[a].refreshToken}
  /\ \A r \in DOMAIN refreshTokens :
       /\ AccessOf(r) \subseteq {refreshTokens[r].accessToken}
       /\ AccessOf(r) = {} =>
            now > pairLog[r].issuedAt + TOKEN_EXPIRY_MS

\* C10 witness: a refresh token whose access token is gone, next to a pair
\* that is complete
C10_Witness ==
  /\ \E r \in DOMAIN refreshTokens : AccessOf(r) = {}
  /\ \E a \in DOMAIN issuedTokens :
       Unexpired(issuedTokens[a]) /\ RefreshOf(a) # {}

\* the pair minted by exchanging refresh token new is (partly) in the stores
PairVisible(new) ==
  \/ new \in DOMAIN refreshTokens
  \/ pairLog[new].accessToken \in DOMAIN issuedTokens

\* C11: in no reachable state is a pair minted by redeeming refresh token R
\* in the stores while R or R's access token is still accepted: R is refused
\* by validateRefreshToken and by the token endpoint (also for a request
\* that was waiting during the exchange), and R's access token is refused by
\* validateAccessToken and by POST /mcp.
C11_OldPairInvalidatedFirst ==
  \A new \in Rotations :
    LET old == pairLog[new].from
        oldAccess == pairLog[old].accessToken
    IN PairVisible(new) =>
         /\ ~validateRefreshToken(old).valid
         /\ ~validateAccessToken(oldAccess).valid
         /\ \A req \in RefreshAttempts(old) : TokenEndpoint(req).status = 401
         /\ \A k \in DOMAIN inflight :
              inflight[k].refresh_token = old =>
                TokenEndpoint(inflight[k]).status = 401
         /\ \A req \in McpRequests :
              (/\ req.authorization.scheme = "Bearer"
               /\ req.authorization.token = oldAccess)
                => McpEndpoint(req).status = 401

\* C11 witness: the new pair is in the stores within the hour of the
\* redeemed access token, while a request with the redeemed refresh token is
\* still waiting
C11_Witness ==
  \E new \in Rotations :
    /\ new \in DOMAIN refreshTokens
    /\ pairLog[new].accessToken \in DOMAIN issuedTokens
    /\ ~(now > pairLog[pairLog[new].from].issuedAt + TOKEN_EXPIRY_MS)
    /\ \E k \in DOMAIN inflight :
         inflight[k].refresh_token = pairLog[new].from

\* the currently valid entries of a store: present and not past their expiry
ValidIn(store) == {t \in DOMAIN store : ~(now > store[t].expiresAt)}

\* C14: a successful refresh exchange of refresh token R takes out of the
\* valid tokens exactly R and the access token R names, and adds exactly one
\* new access token and one new refresh token; every other unexpired access
\* token, refresh token and code stays as it is, record included.
C14_RefreshFrame ==
  \A req \in RefreshTokenRequests :
    LET out == TokenEndpoint(req)
        R == req.refresh_token
    IN out.status = 200 =>
         LET A == refreshTokens[R].accessToken IN
         /\ out.access_token \notin DOMAIN issuedTokens \cup DOMAIN refreshTokens
         /\ out.refresh_token \notin DOMAIN issuedTokens \cup DOMAIN refreshTokens
         /\ out.access_token # out.refresh_token
         /\ ValidIn(out.refreshTokens)
              = (ValidIn(refreshTokens) \ {R}) \cup {out.refresh_token}
         /\ ValidIn(out.issuedTokens)
              = (ValidIn(issuedTokens) \ {A}) \cup {out.access_token}
         /\ \A t \in ValidIn(refreshTokens) \ {R} :
              out.refreshTokens[t] = refreshTokens[t]
         /\ \A t \in ValidIn(issuedTokens) \ {A} :
              out.issuedTokens[t] = issuedTokens[t]
         /\ ValidIn(out.authorizationCodes) = ValidIn(authorizationCodes)
         /\ \A c \in ValidIn(authorizationCodes) :
              out.authorizationCodes[c] = authorizationCodes[c]

\* C14 witness: an exchange is accepted while the access token of the
\* redeemed pair and another pair are valid
C14_Witness ==
  \E req \in RefreshTokenRequests :
    /\ TokenEndpoint(req).status = 200
    /\ refreshTokens[req.refresh_token].accessToken \in ValidIn(issuedTokens)
    /\ \E r \in ValidIn(refreshTokens) :
         /\ r # req.refresh_token
         /\ refreshTokens[r].accessToken \in ValidIn(issuedTokens)

\* the response of POST /oauth/token to every request, in every state: an
\* error adds no token, a success adds one access and one refresh token, the
\* ones it returns, each naming the other
C15_Response ==
  \A req \in TokenRequests :
    LET out == TokenEndpoint(req)
        access == DOMAIN out.issuedTokens \ DOMAIN issuedTokens
        refresh == DOMAIN out.refreshTokens \ DOMAIN refreshTokens
    IN /\ out.status \in {200, 400, 401}
       /\ out.status # 200 =>
            /\ out.error \in {"invalid_request", "invalid_grant",
                              "invalid_client", "unsupported_grant_type"}
            /\ access = {}
            /\ refresh = {}
       /\ out.status = 200 =>
            /\ req.grant_type \in {"authorization_code", "client_credentials",
                                   "refresh_token"}
            /\ access = {out.access_token}
            /\ refresh = {out.refresh_token}
            /\ out.issuedTokens[out.access_token].refreshToken
                 = out.refresh_token
            /\ out.refreshTokens[out.refresh_token].accessToken
                 = out.access_token

\* a step that puts a token into either store puts in one pair, made of the
\* two random values generateTokenPair draws
C15_OnlyPairs ==
  (\/ ~(DOMAIN issuedTokens' \subseteq DOMAIN issuedTokens)
   \/ ~(DOMAIN refreshTokens' \subseteq DOMAIN refreshTokens)) =>
    /\ nextId' = nextId + 2
    /\ DOMAIN issuedTokens' \ DOMAIN issuedTokens = {nextId}
    /\ DOMAIN refreshTokens' \ DOMAIN refreshTokens = {nextId + 1}

\* C15: tokens enter the stores only through generateTokenPair and always
\* as an access/refresh pair: a token request answered with an error adds no
\* access token and no refresh token, a successful authorization_code,
\* client_credentials or refresh_token grant adds exactly one pair, and no
\* other operation adds a token.
C15_TokensEnterAsPairs == []C15_Response /\ [][C15_OnlyPairs]_vars

\* C15 witness: a first grant and then a refresh grant have each minted a
\* pair, and requests are refused in the state reached
C15_Witness ==
  /\ Rotations # {}
  /\ \E req \in TokenRequests : TokenEndpoint(req).error = "invalid_grant"
  /\ \E req \in TokenRequests : TokenEndpoint(req).error = "invalid_client"

\* client_credentials requests whose credentials come, in part or in whole,
\* from a Basic Authorization header
BasicClientCredentialsRequests ==
  {TokenRequest("client_credentials",
                [client_id |-> id, client_secret |-> secret, basic |-> TRUE,
                 basic_id |-> hid, basic_secret |-> hsecret],
                NoId, Undef, Undef, NoId, Undef) :
     id \in {Undef, DefaultClientId}, secret \in {Undef, DefaultClientSecret},
     hid \in ClientIdInputs, hsecret \in SecretInputs}

\* id names a client of the registry (the default client is one of them)
\* and secret is the secret stored for it
CredentialsMatch(id, secret) ==
  /\ id \in DOMAIN registeredClients
  /\ registeredClients[id].client_secret = secret

\* C16: the client_credentials grant mints a pair, for the client named,
\* exactly when the id of the request names a registered (or the default)
\* client and its secret is that client's stored secret; for every other
\* id/secret combination, a missing id or secret included, it answers 401
\* invalid_client and leaves the stores as they are.
C16_ClientCredentials ==
  \A req \in ClientCredentialsRequests \cup BasicClientCredentialsRequests :
    LET out == TokenEndpoint(req)
        id == authClientId(req)
        secret == authClientSecret(req)
    IN /\ validateClientCredentials(id, secret) <=> CredentialsMatch(id, secret)
       /\ out.status = 200 <=> CredentialsMatch(id, secret)
       /\ out.status = 200 =>
            /\ out.issuedTokens[out.access_token].clientId = id
            /\ out.refreshTokens[out.refresh_token].clientId = id
       /\ out.status # 200 =>
            /\ out.status = 401
            /\ out.error = "invalid_client"
            /\ MintsNothing(out)
            /\ out.authorizationCodes = authorizationCodes

\* C16 witness: a dynamically registered client has been issued a pair by
\* the grant, and a request with that client's id and the default client's
\* secret is at hand
C16_Witness ==
  /\ \E r \in DOMAIN pairLog :
       /\ pairLog[r].grant_type = "client_credentials"
       /\ pairLog[r].clientId = DynClientId(1)
  /\ \E req \in ClientCredentialsRequests :
       /\ req.client_id = DynClientId(1)
       /\ req.client_secret = DefaultClientSecret
       /\ TokenEndpoint(req).status = 401

\* the client id of query q is there and names a client of the registry
KnownClient(q) ==
  Truthy(q.client_id) /\ q.client_id \in DOMAIN registeredClients

\* C17: GET /oauth/authorize stores a new code, for the parameters of the
\* query, only when client_id names a registered (or the default) client,
\* response_type is 'code' and redirect_uri is present; it tests the three in
\* that order and answers the first failure with 400 invalid_client,
\* unsupported_response_type or invalid_request, leaving the code store
\* unchanged.
C17_AuthorizeChecks ==
  \A q \in AuthorizeQueries :
    LET out == AuthorizeEndpoint(q) IN
    /\ ~KnownClient(q) =>
         /\ out.status = 400 /\ out.error = "invalid_client"
         /\ out.authorizationCodes = authorizationCodes
    /\ (KnownClient(q) /\ q.response_type # "code") =>
         /\ out.status = 400 /\ out.error = "unsupported_response_type"
         /\ out.authorizationCodes = authorizationCodes
    /\ (KnownClient(q) /\ q.response_type = "code"
          /\ ~Truthy(q.redirect_uri)) =>
         /\ out.status = 400 /\ out.error = "invalid_request"
         /\ out.authorizationCodes = authorizationCodes
    /\ (KnownClient(q) /\ q.response_type = "code"
          /\ Truthy(q.redirect_uri)) =>
         /\ out.status = 302
         /\ out.code \notin DOMAIN authorizationCodes
         /\ DOMAIN out.authorizationCodes
              = DOMAIN authorizationCodes \cup {out.code}
         /\ \A c \in DOMAIN authorizationCodes :
              out.authorizationCodes[c] = authorizationCodes[c]
         /\ out.authorizationCodes[out.code].clientId = q.client_id
         /\ out.authorizationCodes[out.code].redirectUri = q.redirect_uri
         /\ out.authorizationCodes[out.code].expiresAt
              = now + AUTH_CODE_EXPIRY_MS

\* C17 witness: a code has been stored for a client while another client id
\* is not registered
C17_Witness ==
  /\ authorizationCodes # << >>
  /\ \E q \in AuthorizeQueries : Truthy(q.client_id) /\ ~KnownClient(q)
  /\ \E q \in AuthorizeQueries :
       AuthorizeEndpoint(q).error = "unsupported_response_type"

\* the tokens validateRefreshToken is asked about
RefreshLookups == AnyToken \cup RefreshInputs

\* C18 as stated: for every t the refresh-token store is the same after
\* validateRefreshToken(t) as before it.
C18_Original ==
  \A t \in RefreshLookups : validateRefreshToken(t).refreshTokens = refreshTokens

\* C18 (as amended): validateRefreshToken(t) leaves every store as it is
\* when t is absent or has not expired; when t is in the store and expired
\* it deletes the record of t from the refresh-token store and changes
\* nothing else (the refresh request that made the lookup is answered 401
\* and leaves the other stores as they are).
C18_ValidateRefreshToken ==
  \A t \in RefreshLookups :
    LET check == validateRefreshToken(t)
        present == t \in DOMAIN refreshTokens
    IN /\ (~present \/ Unexpired(refreshTokens[t])) =>
            check.refreshTokens = refreshTokens
       /\ (present /\ ~Unexpired(refreshTokens[t])) =>
            /\ ~check.valid
            /\ check.error = "Refresh token expired"
            /\ check.refreshTokens = Delete(refreshTokens, t)
       /\ check.valid <=> (present /\ Unexpired(refreshTokens[t]))
       /\ \A req \in RefreshAttempts(t) :
            LET out == TokenEndpoint(req) IN
            out.status # 200 =>
              /\ out.refreshTokens = check.refreshTokens
              /\ out.issuedTokens = issuedTokens
              /\ out.authorizationCodes = authorizationCodes

\* C18 witness: a refresh request has presented an expired refresh token
\* and the lookup has taken it out of the store (it was not exchanged, and no
\* pair was minted after its expiry, so no sweep has run)
C18_Witness ==
  \E r \in DOMAIN pairLog :
    /\ r \notin DOMAIN refreshTokens
    /\ rotateCount[r] = 0
    /\ now > pairLog[r].issuedAt + REFRESH_TOKEN_EXPIRY_MS
    /\ \A other \in DOMAIN pairLog :
         ~(pairLog[other].issuedAt
             > pairLog[r].issuedAt + REFRESH_TOKEN_EXPIRY_MS)

\* C19: revokeRefreshToken(t) deletes the refresh-token record t and the
\* access token that record links to, and nothing else; a second call, or a
\* call with a t that is not in the store, leaves both stores as they are.
C19_RevokeIdempotent ==
  \A t \in RefreshLookups :
    LET once == revokeRefreshToken(issuedTokens, refreshTokens, t)
        twice == revokeRefreshToken(once.issuedTokens, once.refreshTokens, t)
        linked == IF t \in DOMAIN refreshTokens
                  THEN {refreshTokens[t].accessToken} ELSE {}
    IN /\ DOMAIN once.refreshTokens = DOMAIN refreshTokens \ {t}
       /\ DOMAIN once.issuedTokens = DOMAIN issuedTokens \ linked
       /\ \A r \in DOMAIN once.refreshTokens :
            once.refreshTokens[r] = refreshTokens[r]
       /\ \A a \in DOMAIN once.issuedTokens :
            once.issuedTokens[a] = issuedTokens[a]
       /\ twice = once
       /\ t \notin DOMAIN refreshTokens =>
            /\ once.refreshTokens = refreshTokens
            /\ once.issuedTokens = issuedTokens

\* C19 witness: a refresh exchange has revoked a pair, and a refresh token
\* with its linked access token, and one that is gone, are at hand
C19_Witness ==
  /\ Rotations # {}
  /\ \E r \in DOMAIN refreshTokens :
       refreshTokens[r].accessToken \in DOMAIN issuedTokens
  /\ \E r \in DOMAIN pairLog : r \notin DOMAIN refreshTokens

(* ---------------------------------------------------------------------- *)
(* The resource (audience) parameter                                       *)
(* ---------------------------------------------------------------------- *)
(* The flows of the default client with the scope and resource parameters  *)
(* varied: a resource can come with the authorization request and with     *)
(* the body of a token request.                                            *)

\* getBaseUrl(req), the resource identifier this server publishes in its
\* protected-resource metadata, for the Host the requests are sent to
getBaseUrl == "https://git-gpt-app.example"

ResourceValues == {Undef, getBaseUrl, "https://other-server.example"}
ScopeValues == {Undef, "mcp"}

ResourceAuthorizeQueries ==
  {[client_id |-> DefaultClientId,
    redirect_uri |-> "https://chatgpt.com/connector_platform_oauth_redirect",
    response_type |-> "code", code_challenge |-> Undef,
    code_challenge_method |-> Undef, scope |-> scope, resource |-> resource] :
     scope \in ScopeValues, resource \in ResourceValues}

ResourceCodeRequests ==
  {TokenRequest("authorization_code", cred, c,
                "https://chatgpt.com/connector_platform_oauth_redirect",
                Undef, NoId, resource) :
     cred \in BodyCredentials({DefaultClientId}, {Undef}),
     c \in DOMAIN codeLog, resource \in ResourceValues}
ResourceRefreshRequests ==
  {TokenRequest("refresh_token", cred, NoId, Undef, Undef, r, resource) :
     cred \in BodyCredentials({DefaultClientId}, {Undef}),
     r \in DOMAIN pairLog, resource \in ResourceValues}
ResourceClientCredentialsRequests ==
  {TokenRequest("client_credentials", cred, NoId, Undef, Undef, NoId, resource) :
     cred \in BodyCredentials({DefaultClientId}, {DefaultClientSecret}),
     resource \in ResourceValues}
ResourceTokenRequests ==
  ResourceCodeRequests \cup ResourceRefreshRequests
    \cup ResourceClientCredentialsRequests

ResourceStepInputs == {1, TOKEN_EXPIRY_MS}

NextRes ==
  \/ \E d \in ResourceStepInputs : Tick(d)
  \/ \E q \in ResourceAuthorizeQueries : GetAuthorize(q)
  \/ \E req \in ResourceTokenRequests : PostToken(req)
  \/ \E req \in McpRequests : PostMcp(req)

SpecRes == Init /\ [][NextRes]_vars

\* C12: an access token bound to a resource R at issuance is honoured only
\* for R: POST /mcp on this server, whose resource identifier is getBaseUrl,
\* rejects a request that presents a token bound to another resource.
C12_AudienceBinding ==
  \A req \in McpRequests :
    LET t == req.authorization.token IN
    (/\ req.authorization.scheme = "Bearer"
     /\ t \in DOMAIN issuedTokens
     /\ Truthy(issuedTokens[t].resource)
     /\ issuedTokens[t].resource # getBaseUrl) =>
      /\ ~McpEndpoint(req).handled
      /\ McpEndpoint(req).status = 401

\* C13: for every successful refresh exchange and every request body, one
\* with a resource field of its own included, the scope and the resource
\* recorded on the new access token and on the new refresh token are the
\* scope and the resource of the redeemed refresh token.
C13_CarriedForward ==
  \A req \in ResourceRefreshRequests :
    LET out == TokenEndpoint(req) IN
    out.status = 200 =>
      LET old == refreshTokens[req.refresh_token]
          access == out.issuedTokens[out.access_token]
          refresh == out.refreshTokens[out.refresh_token]
      IN /\ access.scope = old.scope
         /\ refresh.scope = old.scope
         /\ access.resource = old.resource
         /\ refresh.resource = old.resource

(* ---------------------------------------------------------------------- *)
(* Expiry without traffic                                                  *)
(* ---------------------------------------------------------------------- *)
(* The clock advances whatever the clients do.  The module sets no timer:  *)
(* cleanupExpiredTokens is a private function whose only call is the last  *)
(* statement of generateTokenPair.  Requests arrive when clients send      *)
(* them, so no request is ever bound to happen.                            *)
SpecLive == Init /\ [][Next]_vars /\ WF_vars(\E d \in StepInputs : Tick(d))

\* identifier k is a code, an access token or a refresh token that is in
\* its store although its expiry has passed
StoredExpired(k) ==
  \/ k \in DOMAIN authorizationCodes /\ now > authorizationCodes[k].expiresAt
  \/ k \in DOMAIN issuedTokens /\ now > issuedTokens[k].expiresAt
  \/ k \in DOMAIN refreshTokens /\ now > refreshTokens[k].expiresAt

\* C20: every authorization code, access token and refresh token whose
\* expiry has passed is eventually deleted from its store, whether or not a
\* further request arrives.
C20_SweepOnItsOwn ==
  \A k \in 1..MaxIds : StoredExpired(k) ~> ~StoredExpired(k)

(* ---------------------------------------------------------------------- *)
(* Sweeps placed anywhere, and nowhere                                     *)
(* ---------------------------------------------------------------------- *)
(* The flows of the default client, with cleanupExpiredTokens run at any   *)
(* moment between two requests and with token issuances that leave out the *)
(* sweep that ends generateTokenPair.                                      *)

\* the entries of a store whose expiry has passed
ExpiredIn(store) == {k \in DOMAIN store : now > store[k].expiresAt}

\* cleanupExpiredTokens, run on its own
Sweep ==
  /\ authorizationCodes' = cleanupExpiredTokens(authorizationCodes)
  /\ issuedTokens' = cleanupExpiredTokens(issuedTokens)
  /\ refreshTokens' = cleanupExpiredTokens(refreshTokens)
  /\ UNCHANGED <<review, now, ticks, nextId, registeredClients, connections, history>>

\* store after, with the entries of store before put back that only the
\* sweep took out (the expired ones, less those the handler deleted itself)
WithoutSweep(before, after, deleted) ==
  [k \in DOMAIN after \cup (ExpiredIn(before) \ deleted) |->
     IF k \in DOMAIN after THEN after[k] ELSE before[k]]

\* POST /oauth/token with the last statement of generateTokenPair, the call
\* of cleanupExpiredTokens, left out
PostTokenUnswept(req) ==
  LET out == TokenEndpoint(req)
      minted == out.status = 200
      revoked == IF minted /\ req.grant_type = "refresh_token"
                 THEN {refreshTokens[req.refresh_token].accessToken} ELSE {}
  IN
  /\ minted
  /\ nextId + 1 <= MaxIds
  /\ authorizationCodes' =
       WithoutSweep(authorizationCodes, out.authorizationCodes, {})
  /\ issuedTokens' = WithoutSweep(issuedTokens, out.issuedTokens, revoked)
  /\ refreshTokens' = WithoutSweep(refreshTokens, out.refreshTokens, {})
  /\ nextId' = nextId + 2
  /\ redeemCount' =
       IF req.grant_type = "authorization_code"
       THEN [redeemCount EXCEPT ![req.code] = @ + 1] ELSE redeemCount
  /\ rotateCount' =
       IF req.grant_type = "refresh_token"
       THEN Put([rotateCount EXCEPT ![req.refresh_token] = @ + 1],
                out.refresh_token, 0)
       ELSE Put(rotateCount, out.refresh_token, 0)
  /\ pairLog' =
       Put(pairLog, out.refresh_token,
           [accessToken |-> out.access_token,
            clientId |-> out.refreshTokens[out.refresh_token].clientId,
            scope |-> out.refreshTokens[out.refresh_token].scope,
            resource |-> out.refreshTokens[out.refresh_token].resource,
            issuedAt |-> now,
            grant_type |-> req.grant_type,
            from |-> IF req.grant_type = "authorization_code"
                     THEN req.code ELSE req.refresh_token])
  /\ UNCHANGED <<review, now, ticks, registeredClients, codeLog, connections>>

\* the requests of the default client
SweepAuthorizeQueries ==
  {q \in ResourceAuthorizeQueries : q.scope = Undef /\ q.resource = Undef}
SweepTokenRequests ==
  {req \in ResourceTokenRequests : req.resource = Undef}

NextSweep ==
  \/ \E d \in StepInputs : Tick(d)
  \/ \E q \in SweepAuthorizeQueries : GetAuthorize(q)
  \/ \E req \in SweepTokenRequests : PostToken(req)
  \/ \E req \in SweepTokenRequests : PostTokenUnswept(req)
  \/ \E req \in McpRequests : PostMcp(req)
  \/ Sweep

SpecSweep == Init /\ [][NextSweep]_vars

\* what a client sees of the answer to a token request, and the unexpired
\* entries the request leaves
Answer(req) ==
  LET out == TokenEndpoint(req) IN
  [status |-> out.status, error |-> out.error,
   access_token |-> out.access_token, refresh_token |-> out.refresh_token,
   codes |-> Restrict(out.authorizationCodes, ValidIn(out.authorizationCodes)),
   access |-> Restrict(out.issuedTokens, ValidIn(out.issuedTokens)),
   refresh |-> Restrict(out.refreshTokens, ValidIn(out.refreshTokens))]

\* what a client sees of the answer to a protected request
McpAnswer(req) ==
  LET out == McpEndpoint(req) IN
  [status |-> out.status, handled |-> out.handled,
   access |-> Restrict(out.issuedTokens, ValidIn(out.issuedTokens))]

\* a sweep changes the answer to no request that may follow it, and deletes
\* only entries whose expiry has passed
C21_SweepStep ==
  (Sweep /\ vars' # vars) =>
    /\ \A req \in TokenRequests : Answer(req)' = Answer(req)
    /\ \A req \in McpRequests : McpAnswer(req)' = McpAnswer(req)
    /\ \A t \in AnyToken :
         validateAccessToken(t)'.valid = validateAccessToken(t).valid
    /\ authorizationCodes'
         = Restrict(authorizationCodes, DOMAIN authorizationCodes')
    /\ issuedTokens' = Restrict(issuedTokens, DOMAIN issuedTokens')
    /\ refreshTokens' = Restrict(refreshTokens, DOMAIN refreshTokens')
    /\ DOMAIN authorizationCodes \ DOMAIN authorizationCodes'
         \subseteq ExpiredIn(authorizationCodes)
    /\ DOMAIN issuedTokens \ DOMAIN issuedTokens'
         \subseteq ExpiredIn(issuedTokens)
    /\ DOMAIN refreshTokens \ DOMAIN refreshTokens'
         \subseteq ExpiredIn(refreshTokens)

\* C21: expiry correctness does not depend on sweep timing.  In every state
\* reached by any sequence of requests with sweeps at any places, those of
\* token issuance left out or not, a sweep deletes only entries whose expiry
\* has passed and leaves the answer to every code redemption, access-token
\* validation and refresh exchange as it was (status, OAuth error code,
\* tokens minted and the unexpired entries left); the answers are therefore
\* those of the same sequence with no sweep in it.
C21_SweepIndependence == [][C21_SweepStep]_vars

\* C21 witness: a code past its expiry is in the store next to a pair minted
\* after that expiry: the issuance did not sweep, and a sweep can follow
C21_Witness ==
  \E c \in DOMAIN authorizationCodes :
    /\ now > authorizationCodes[c].expiresAt
    /\ \E r \in DOMAIN pairLog :
         pairLog[r].issuedAt > authorizationCodes[c].expiresAt

(* ---------------------------------------------------------------------- *)
(* The client registry over time                                           *)
(* ---------------------------------------------------------------------- *)
\* what registerClient does to the registry, for every registration request:
\* one more record, under an id that was not there, the others as they were
C22_Registers ==
  \A request \in RegistrationRequests :
    LET after == registerClient(request) IN
    /\ Cardinality(DOMAIN after) = Cardinality(DOMAIN registeredClients) + 1
    /\ Restrict(after, DOMAIN registeredClients) = registeredClients

\* the client of the configuration is accepted, by id and by id and secret
C22_DefaultAccepted ==
  /\ validateClientId(getOAuthCredentials.clientId)
  /\ validateClientCredentials(getOAuthCredentials.clientId,
                               getOAuthCredentials.clientSecret)

\* no step takes a record away or changes one, and what the two validators
\* accept before a step they accept after it
C22_Step ==
  /\ Restrict(registeredClients', DOMAIN registeredClients) = registeredClients
  /\ \A id \in ClientIdInputs :
       /\ validateClientId(id) => validateClientId(id)'
       /\ \A secret \in SecretInputs :
            validateClientCredentials(id, secret)
              => validateClientCredentials(id, secret)'

\* C22: the client registry only grows: registerClient adds one record under
\* a fresh client id and leaves every existing record as it is, no operation
\* changes or deletes a record, so a client id or an id/secret pair that is
\* accepted once is accepted in every later state; the default client is
\* accepted from startup on.
C22_RegistryOnlyGrows ==
  [](C22_Registers /\ C22_DefaultAccepted) /\ [][C22_Step]_vars

\* a client has registered dynamically and is accepted with its secret, and
\* tokens have been issued since the start
C22_Witness ==
  /\ NumDynamic >= 1
  /\ validateClientCredentials(DynClientId(1), DynClientSecret(1))
  /\ pairLog # << >>

(* ---------------------------------------------------------------------- *)
(* The resource of a redeemed code                                         *)
(* ---------------------------------------------------------------------- *)
\* C23: for every successful authorization_code exchange and every request
\* body, one with a resource field of its own included, the scope and the
\* resource recorded on the new access token and on the new refresh token
\* are the scope and the resource stored with the redeemed code; a code
\* stored without a resource gives tokens without a resource.
C23_CodeBinding ==
  \A req \in ResourceCodeRequests :
    LET out == TokenEndpoint(req) IN
    out.status = 200 =>
      LET stored == authorizationCodes[req.code]
          access == out.issuedTokens[out.access_token]
          refresh == out.refreshTokens[out.refresh_token]
      IN /\ access.scope = stored.scope
         /\ refresh.scope = stored.scope
         /\ access.resource = stored.resource
         /\ refresh.resource = stored.resource

(* ---------------------------------------------------------------------- *)
(* The order of the checks of a redemption                                 *)
(* ---------------------------------------------------------------------- *)
\* the arguments validateAuthorizationCode is called with
CodeArguments == (CodeInputs \ {NoId}) \X ((ClientIdInputs \ {Undef}) \cup {""}) \X (RedirectInputs \ {Undef}) \X VerifierInputs

\* the verifier is the one the record asks for, if it asks for one
VerifierPasses(record, codeVerifier) ==
  VerifierRequired(record) =>
    /\ Truthy(codeVerifier)
    /\ Sha256Base64Url(codeVerifier) = record.codeChallenge

\* each check answers only when every check before it has passed, whatever
\* the later ones would say, and the store is touched only by the expiry
\* check that fails and by the validation that succeeds
C24_Order ==
  \A a \in CodeArguments :
    LET code == a[1]
        clientId == a[2]
        redirectUri == a[3]
        codeVerifier == a[4]
        result == validateAuthorizationCode(code, clientId, redirectUri, codeVerifier)
        record == authorizationCodes[code]
    IN
    IF code \notin DOMAIN authorizationCodes
    THEN /\ ~result.valid
         /\ result.error = "Invalid authorization code"
         /\ result.codes = authorizationCodes
    ELSE IF ~Unexpired(record)
    THEN /\ ~result.valid
         /\ result.error = "Authorization code expired"
         /\ result.codes = Delete(authorizationCodes, code)
    ELSE
      /\ record.clientId # clientId => result.error = "Client ID mismatch"
      /\ (record.clientId = clientId /\ record.redirectUri # redirectUri)
           => result.error = "Redirect URI mismatch"
      /\ (/\ record.clientId = clientId
          /\ record.redirectUri = redirectUri
          /\ ~VerifierPasses(record, codeVerifier))
           => result.error \in {"Code verifier required", "Invalid code verifier"}
      /\ result.valid <=>
           /\ record.clientId = clientId
           /\ record.redirectUri = redirectUri
           /\ VerifierPasses(record, codeVerifier)
      /\ result.codes = IF result.valid THEN Delete(authorizationCodes, code)
                        ELSE authorizationCodes

\* a token request that fails on a stored, unexpired code leaves all three
\* stores as they are, and the request that matches the code is answered 200
C24_LaterAttempt ==
  \A c \in DOMAIN authorizationCodes :
    Unexpired(authorizationCodes[c]) =>
      \A req \in RedemptionAttempts(c) :
        LET out == TokenEndpoint(req) IN
        IF MatchesCode(req, authorizationCodes[c])
        THEN out.status = 200
        ELSE /\ out.status = 400
             /\ out.error = "invalid_grant"
             /\ out.authorizationCodes = authorizationCodes
             /\ out.issuedTokens = issuedTokens
             /\ out.refreshTokens = refreshTokens

\* a code leaves the store only in a step that redeems it or once its
\* expiry has passed
C24_Step ==
  \A c \in DOMAIN authorizationCodes :
    c \notin DOMAIN authorizationCodes' =>
      \/ redeemCount'[c] = redeemCount[c] + 1
      \/ now > authorizationCodes[c].expiresAt

\* C24: validateAuthorizationCode checks, in this order, that the code is
\* present, that it has not expired, the client id, the redirect URI and the
\* PKCE verifier, and deletes the code only when all checks pass or when it
\* has expired: an attempt that fails for the client, the redirect URI or
\* the verifier leaves the code store unchanged, so that a later correct
\* attempt before expiry still succeeds.
C24_ValidateThenDelete ==
  [](C24_Order /\ C24_LaterAttempt) /\ [][C24_Step]_vars

\* a code with an S256 challenge is in the store, time has passed since it
\* was issued, and there are attempts on it that fail for the client, for
\* the redirect URI and for the verifier, and one that succeeds
C24_Witness ==
  \E c \in DOMAIN authorizationCodes :
    LET record == authorizationCodes[c] IN
    /\ Unexpired(record)
    /\ VerifierRequired(record)
    /\ now > 0
    /\ \A msg \in {"Client ID mismatch", "Redirect URI mismatch",
                   "Code verifier required", "Invalid code verifier"} :
         \E a \in CodeArguments :
           /\ a[1] = c
           /\ validateAuthorizationCode(a[1], a[2], a[3], a[4]).error = msg
    /\ \E req \in RedemptionAttempts(c) : TokenEndpoint(req).status = 200

(* ---------------------------------------------------------------------- *)
(* The lifetime of a code                                                  *)
(* ---------------------------------------------------------------------- *)
\* a code issued now expires ten minutes from now
C25_IssuedForTenMinutes ==
  \A q \in AuthorizeQueries :
    LET out == AuthorizeEndpoint(q) IN
    out.status = 302 =>
      out.authorizationCodes[out.code].expiresAt = now + 10 * 60

\* past the expiry every attempt, a matching one included, is answered
\* 400 invalid_grant, mints nothing and leaves the code out of the store:
\* 'Authorization code expired' while the code is stored, 'Invalid
\* authorization code' once it is gone
C25_AfterExpiry ==
  \A c \in DOMAIN codeLog :
    now > codeLog[c].expiresAt =>
      \A req \in RedemptionAttempts(c) :
        LET out == TokenEndpoint(req) IN
        /\ out.status = 400
        /\ out.error = "invalid_grant"
        /\ out.error_description =
             IF c \in DOMAIN authorizationCodes
             THEN "Authorization code expired"
             ELSE "Invalid authorization code"
        /\ MintsNothing(out)
        /\ c \notin DOMAIN out.authorizationCodes

\* a code that has left the store stays out, and a redemption happens only
\* while the code has not expired
C25_Step ==
  \A c \in DOMAIN codeLog :
    /\ c \notin DOMAIN authorizationCodes => c \notin DOMAIN authorizationCodes'
    /\ redeemCount'[c] # redeemCount[c] => ~(now > codeLog[c].expiresAt)

\* C25: an authorization code lives ten minutes from its issue: an attempt
\* to redeem it later than that fails with invalid_grant even with the right
\* client, redirect URI and verifier, that attempt deletes the code, every
\* later attempt on it fails as code not found, and no code is ever redeemed
\* after its expiry.
C25_CodeLifetime ==
  [](C25_IssuedForTenMinutes /\ C25_AfterExpiry) /\ [][C25_Step]_vars

\* a code has expired unredeemed and an attempt on it, not a sweep (no pair
\* was ever minted), has taken it out of the store
C25_Witness ==
  \E c \in DOMAIN codeLog :
    /\ now > codeLog[c].expiresAt
    /\ redeemCount[c] = 0
    /\ c \notin DOMAIN authorizationCodes
    /\ pairLog = << >>
    /\ \E req \in RedemptionAttempts(c) : MatchesCode(req, codeLog[c])

(* ---------------------------------------------------------------------- *)
(* What generateTokenPair leaves behind                                    *)
(* ---------------------------------------------------------------------- *)
\* the arguments the token endpoint calls generateTokenPair with
PairArguments == ((ClientIdInputs \ {Undef}) \cup {"chatgpt"}) \X ScopeValues \X ResourceValues

\* the state right after generateTokenPair(clientId, scope, resource), called
\* on the stores as they are
C26_Postcondition ==
  \A a \in PairArguments :
    LET pair == generateTokenPair(authorizationCodes, issuedTokens,
                                  refreshTokens, a[1], a[2], a[3])
        A == pair.accessToken
        R == pair.refreshToken
    IN
    /\ A # R
    /\ {A, R} \cap (DOMAIN issuedTokens \cup DOMAIN refreshTokens) = {}
    /\ {A, R} \cap (DOMAIN codeLog \cup DOMAIN pairLog \cup AnyToken) = {}
    /\ A \in DOMAIN pair.issuedTokens
    /\ pair.issuedTokens[A] =
         [expiresAt |-> now + 60 * 60, clientId |-> a[1], scope |-> a[2],
          resource |-> a[3], refreshToken |-> R]
    /\ R \in DOMAIN pair.refreshTokens
    /\ pair.refreshTokens[R] =
         [expiresAt |-> now + 30 * 24 * 60 * 60, clientId |-> a[1],
          scope |-> a[2], resource |-> a[3], accessToken |-> A]
    /\ pair.refreshTokens[R].expiresAt > pair.issuedTokens[A].expiresAt

\* in every pair that is stored the refresh token expires after the access
\* token
C26_RefreshOutlives ==
  \A r \in DOMAIN refreshTokens :
    refreshTokens[r].accessToken \in DOMAIN issuedTokens =>
      refreshTokens[r].expiresAt
        > issuedTokens[refreshTokens[r].accessToken].expiresAt

\* C26: right after generateTokenPair(clientId, scope, resource) has returned
\* (A, R), A and R are two different keys that were not in use, the access
\* store maps A to a record with that client, scope and resource, expiry now
\* + 1 hour and back-reference R, and the refresh store maps R to a record
\* with the same client, scope and resource, expiry now + 30 days and
\* back-reference A; so in every pair the refresh token expires strictly
\* later than the access token.
C26_PairPostcondition == C26_Postcondition /\ C26_RefreshOutlives

\* a pair minted at an earlier moment is in the two stores, and the next
\* pair would be added to stores that are not empty
C26_Witness ==
  \E r \in DOMAIN refreshTokens :
    /\ refreshTokens[r].accessToken \in DOMAIN issuedTokens
    /\ r \in DOMAIN pairLog
    /\ now > pairLog[r].issuedAt
    /\ nextId + 1 <= MaxIds

(* ---------------------------------------------------------------------- *)
(* The redirect URI of an authorization request                            *)
(* ---------------------------------------------------------------------- *)
(* The authorization endpoint with the redirect_uri varied: a registered   *)
(* URI, a URI that a registered wildcard pattern covers, and a URI of      *)
(* another site.                                                           *)
RedirectValues ==
  {"https://chatgpt.com/connector_platform_oauth_redirect",
   "https://chatgpt.com/aip/g-1/oauth/callback",
   "https://attacker.example/callback"}

RedirectAuthorizeQueries ==
  {[client_id |-> c, redirect_uri |-> uri, response_type |-> "code",
    code_challenge |-> Undef, code_challenge_method |-> Undef,
    scope |-> Undef, resource |-> Undef] :
     c \in ClientIdInputs \ {Undef}, uri \in RedirectValues}

RedirectTokenRequests ==
  {TokenRequest("authorization_code", cred, c, uri, Undef, NoId, Undef) :
     cred \in BodyCredentials(ClientIdInputs \ {Undef}, {Undef}),
     c \in DOMAIN codeLog, uri \in RedirectValues}
  \cup
  {TokenRequest("refresh_token", cred, NoId, Undef, Undef, r, Undef) :
     cred \in BodyCredentials(ClientIdInputs \ {Undef}, {Undef}),
     r \in DOMAIN pairLog}

NextRedirect ==
  \/ \E d \in ResourceStepInputs : Tick(d)
  \/ \E request \in RegistrationRequests : PostRegister(request)
  \/ \E q \in RedirectAuthorizeQueries : GetAuthorize(q)
  \/ \E req \in RedirectTokenRequests : PostToken(req)
  \/ \E req \in McpRequests : PostMcp(req)

SpecRedirect == Init /\ [][NextRedirect]_vars

\* uri is the registered string, or the registered string is the wildcard
\* pattern and uri fills its segment
UriMatches(uri, registered) ==
  \/ uri = registered
  \/ /\ registered = "https://chatgpt.com/aip/g-*/oauth/callback"
     /\ uri = "https://chatgpt.com/aip/g-1/oauth/callback"

\* uri belongs to the allowed redirect URIs of the client
RedirectAllowed(clientId, uri) ==
  /\ clientId \in DOMAIN registeredClients
  /\ \E registered \in registeredClients[clientId].redirect_uris :
       UriMatches(uri, registered)

\* C27: every authorization code in the store was issued for a redirect URI
\* that belongs to the allowed redirect URIs of the client that owns it:
\* GET /oauth/authorize stores no code for a redirect_uri outside that set.
C27_RedirectAllowed ==
  \A c \in DOMAIN authorizationCodes :
    RedirectAllowed(authorizationCodes[c].clientId,
                    authorizationCodes[c].redirectUri)

(* ---------------------------------------------------------------------- *)
(* What stands behind an accepted access token                             *)
(* ---------------------------------------------------------------------- *)
\* C28: in every reachable state, every access token that validateAccessToken
\* accepts has its paired refresh token in the refresh store and unexpired,
\* with the same owning client, scope and resource and a back-reference to
\* that access token, and its owning client id is one validateClientId
\* accepts.
C28_AcceptedTokenBacked ==
  \A t \in AnyToken :
    validateAccessToken(t).valid =>
      LET access == issuedTokens[t]
          r == access.refreshToken
      IN /\ r \in DOMAIN refreshTokens
         /\ Unexpired(refreshTokens[r])
         /\ refreshTokens[r].clientId = access.clientId
         /\ refreshTokens[r].scope = access.scope
         /\ refreshTokens[r].resource = access.resource
         /\ refreshTokens[r].accessToken = t
         /\ validateClientId(access.clientId)

\* an access token minted by a refresh exchange is accepted, and the access
\* token of the pair that was revoked is refused
C28_Witness ==
  /\ \E t \in DOMAIN issuedTokens :
       /\ validateAccessToken(t).valid
       /\ pairLog[issuedTokens[t].refreshToken].grant_type = "refresh_token"
  /\ \E r \in DOMAIN pairLog :
       /\ r \notin DOMAIN refreshTokens
       /\ ~validateAccessToken(pairLog[r].accessToken).valid

(* ---------------------------------------------------------------------- *)
(* postReviewComments                                                      *)
(* ---------------------------------------------------------------------- *)
(* Calls of postReviewComments for one pull request, by an authenticated   *)
(* user, with a well-formed prName.  A call runs without interruption from *)
(* one await to the next; what happens between two awaits is one action.   *)
(* GitHub answers each request at a moment of its choosing, or fails it.   *)
(* The behaviours are those shorter than IDEMPOTENCY_TTL (24 hours): no    *)
(* entry of the idempotency store expires.                                 *)

\* a line that is not there
NoLine == 0
ReviewComment(body, path, line) == [body |-> body, path |-> path, line |-> line]

\* the comments arrays of the calls: a general comment, the same comment
\* with trailing white space, and the same body as an inline comment
CommentInputs ==
  {<<ReviewComment("LGTM", Undef, NoLine)>>,
   <<ReviewComment("LGTM ", Undef, NoLine)>>,
   <<ReviewComment("LGTM", "src/app.ts", 1)>>}
IdempotencyKeyInputs == {"key-1", "key-2"}
EventInputs == {"COMMENT"}

\* String.prototype.trim and toLowerCase over the bodies of the model
Trim(s) == IF s = "LGTM " THEN "LGTM" ELSE s
ToLowerCase(s) ==
  IF s = "LGTM" THEN "lgtm" ELSE IF s = "LGTM " THEN "lgtm " ELSE s

\* lock:<pr>:JSON.stringify(comments.map(c => c.body).sort()): the bodies
\* with their multiplicities, which is what the sorted array records
lockKey(comments) ==
  LET bodies == {comments[i].body : i \in DOMAIN comments} IN
  [b \in bodies |-> Cardinality({i \in DOMAIN comments : comments[i].body = b})]

normalizeComment(c) ==
  [body |-> Trim(Or(c.body, "")),
   path |-> IF Truthy(c.path) THEN c.path ELSE Undef,
   line |-> c.line]

\* idempotency:content:<pr>:<sha256 of the payload>; the digest is taken as
\* one-to-one and stands here as the payload itself
payloadKey(event, comments) ==
  [kind |-> "content", key |-> Undef, event |-> event,
   comments |-> [i \in DOMAIN comments |-> normalizeComment(comments[i])]]

\* idempotency:key:<pr>:<idempotencyKey>
idempKey(idempotencyKey) ==
  [kind |-> "key", key |-> idempotencyKey, event |-> Undef, comments |-> << >>]

\* idempotencyService.isProcessed / getResult on an unexpired store
isProcessed(key) == key \in DOMAIN idempotencyStore
getResult(key) == idempotencyStore[key]

isInline(c) == Truthy(c.path) /\ c.line # NoLine
inlineComments(comments) == SelectSeq(comments, isInline)
isGeneral(c) == ~isInline(c)
generalComments(comments) == SelectSeq(comments, isGeneral)

RECURSIVE Join(_)
\* bodies.filter(Boolean).join("\n\n")
Join(bodies) ==
  IF bodies = << >> THEN ""
  ELSE IF ~Truthy(Head(bodies)) THEN Join(Tail(bodies))
  ELSE IF Join(Tail(bodies)) = "" THEN Head(bodies)
  ELSE Head(bodies) \o "\n\n" \o Join(Tail(bodies))

reviewBody(comments) ==
  LET general == generalComments(comments) IN
  Join([i \in DOMAIN general |-> general[i].body])

\* existingReviews.find(r => r.body?.trim().toLowerCase() ===
\* reviewBody.trim().toLowerCase()): the id of the first such review, or 0
duplicateReview(existingReviews, body) ==
  LET same == {i \in DOMAIN existingReviews :
                 /\ existingReviews[i] # Undef
                 /\ ToLowerCase(Trim(existingReviews[i])) = ToLowerCase(Trim(body))}
  IN IF same = {} THEN 0 ELSE CHOOSE i \in same : \A j \in same : i <= j

shouldCreateReview(event, comments) ==
  \/ Len(inlineComments(comments)) > 0
  \/ event # "COMMENT"
  \/ Truthy(reviewBody(comments))

\* a PostReviewResponse; duplicate stands for the message 'Review already
\* exists ... (duplicate prevented)'
PostReviewResponse(reviewId, commentsPosted, duplicate) ==
  [success |-> TRUE, reviewId |-> reviewId, commentsPosted |-> commentsPosted,
   duplicate |-> duplicate]
NoResponse ==
  [success |-> FALSE, reviewId |-> 0, commentsPosted |-> 0, duplicate |-> FALSE]

Call(pc, comments, event, idempotencyKey, waitsFor, reviewId, result) ==
  [pc |-> pc, comments |-> comments, event |-> event,
   idempotencyKey |-> idempotencyKey, waitsFor |-> waitsFor,
   reviewId |-> reviewId, result |-> result]

\* github-api.ts:571-673: a call arrives and runs to its first await.  With
\* the lock active it awaits the promise in the map; otherwise it sets its
\* own lock and the 10-second timer, returns a cached result if the store
\* has one, and else asks GitHub for the reviews of the pull request.
StartReview(comments, event, idempotencyKey) ==
  LET c == Cardinality(DOMAIN calls) + 1
      key == lockKey(comments)
      start(pc, waitsFor, result) ==
        Put(calls, c, Call(pc, comments, event, idempotencyKey, waitsFor, 0, result))
  IN
  /\ c <= MaxCalls
  /\ IF key \in DOMAIN activeRequests
     THEN /\ calls' = start("waiting", activeRequests[key], NoResponse)
          /\ UNCHANGED <<activeRequests, lockTimers>>
     ELSE /\ activeRequests' = Put(activeRequests, key, c)
          /\ lockTimers' = Append(lockTimers, key)
          /\ calls' =
               IF isProcessed(payloadKey(event, comments))
               THEN start("returned", 0, getResult(payloadKey(event, comments)))
               ELSE IF isProcessed(idempKey(idempotencyKey))
               THEN start("returned", 0, getResult(idempKey(idempotencyKey)))
               ELSE start("listing", 0, NoResponse)
  /\ UNCHANGED <<lockPromises, idempotencyStore, githubReviews, reviewPosts, oauth>>

\* github-api.ts:587-588: the awaited lock promise is resolved
AwaitLock(c) ==
  /\ c \in DOMAIN calls
  /\ calls[c].pc = "waiting"
  /\ calls[c].waitsFor \in DOMAIN lockPromises
  /\ calls' = [calls EXCEPT ![c].pc = "returned",
                            ![c].result = lockPromises[calls[c].waitsFor]]
  /\ UNCHANGED <<activeRequests, lockPromises, lockTimers, idempotencyStore,
                 githubReviews, reviewPosts, oauth>>

\* github-api.ts:669-734: GitHub answers with the reviews; the call finds a
\* duplicate and asks for the pull request, or sends the POST that creates
\* the review, or has no review to create and asks for the pull request
ListReturns(c) ==
  LET body == reviewBody(calls[c].comments)
      duplicate == duplicateReview(githubReviews, body)
  IN
  /\ c \in DOMAIN calls
  /\ calls[c].pc = "listing"
  /\ IF Truthy(body) /\ duplicate # 0
     THEN /\ calls' = [calls EXCEPT ![c].pc = "fetchingDuplicate",
                                    ![c].reviewId = duplicate]
          /\ UNCHANGED reviewPosts
     ELSE IF shouldCreateReview(calls[c].event, calls[c].comments)
     THEN /\ calls' = [calls EXCEPT ![c].pc = "posting"]
          /\ reviewPosts' = reviewPosts \cup {c}
     ELSE /\ calls' = [calls EXCEPT ![c].pc = "fetching"]
          /\ UNCHANGED reviewPosts
  /\ UNCHANGED <<activeRequests, lockPromises, lockTimers, idempotencyStore,
                 githubReviews, oauth>>

\* github-api.ts:692-703: GitHub answers with the pull request; the call
\* returns 'Review already exists', its lock promise unresolved
DuplicateFetchReturns(c) ==
  /\ c \in DOMAIN calls
  /\ calls[c].pc = "fetchingDuplicate"
  /\ calls' = [calls EXCEPT ![c].pc = "returned",
                            ![c].result = PostReviewResponse(calls[c].reviewId, 0, TRUE)]
  /\ UNCHANGED <<activeRequests, lockPromises, lockTimers, idempotencyStore,
                 githubReviews, reviewPosts, oauth>>

\* github-api.ts:722-743: GitHub creates the review and answers with its id;
\* the call asks for the pull request
PostReturns(c) ==
  LET body == reviewBody(calls[c].comments) IN
  /\ c \in DOMAIN calls
  /\ calls[c].pc = "posting"
  /\ githubReviews' = Append(githubReviews, IF Truthy(body) THEN body ELSE Undef)
  /\ calls' = [calls EXCEPT ![c].pc = "fetching",
                            ![c].reviewId = Len(githubReviews) + 1]
  /\ UNCHANGED <<activeRequests, lockPromises, lockTimers, idempotencyStore,
                 reviewPosts, oauth>>

\* github-api.ts:740-760: GitHub answers with the pull request; the call
\* builds its response, marks both keys processed, resolves its lock promise
\* and returns
FetchReturns(c) ==
  LET response == PostReviewResponse(calls[c].reviewId, Len(calls[c].comments), FALSE) IN
  /\ c \in DOMAIN calls
  /\ calls[c].pc = "fetching"
  /\ idempotencyStore' =
       Put(Put(idempotencyStore, idempKey(calls[c].idempotencyKey), response),
           payloadKey(calls[c].event, calls[c].comments), response)
  /\ lockPromises' = Put(lockPromises, c, response)
  /\ calls' = [calls EXCEPT ![c].pc = "returned", ![c].result = response]
  /\ UNCHANGED <<activeRequests, lockTimers, githubReviews, reviewPosts, oauth>>

\* github-api.ts:38-42: GitHub answers a request with an error status, and
\* githubRequest throws out of the call
RequestFails(c) ==
  /\ c \in DOMAIN calls
  /\ calls[c].pc \in {"listing", "fetchingDuplicate", "posting", "fetching"}
  /\ calls' = [calls EXCEPT ![c].pc = "thrown"]
  /\ UNCHANGED <<activeRequests, lockPromises, lockTimers, idempotencyStore,
                 githubReviews, reviewPosts, oauth>>

\* github-api.ts:599: the oldest 10-second timer fires and deletes whatever
\* is in the map under its lockKey
LockTimeout ==
  /\ lockTimers # << >>
  /\ activeRequests' = Delete(activeRequests, Head(lockTimers))
  /\ lockTimers' = Tail(lockTimers)
  /\ UNCHANGED <<calls, lockPromises, idempotencyStore, githubReviews,
                 reviewPosts, oauth>>

\* GitHub answers the request call c waits for, one way or the other
GithubAnswers(c) ==
  \/ ListReturns(c)
  \/ DuplicateFetchReturns(c)
  \/ PostReturns(c)
  \/ FetchReturns(c)
  \/ RequestFails(c)

NextReview ==
  \/ \E comments \in CommentInputs, event \in EventInputs,
        idempotencyKey \in IdempotencyKeyInputs :
       StartReview(comments, event, idempotencyKey)
  \/ \E c \in DOMAIN calls : AwaitLock(c)
  \/ \E c \in DOMAIN calls : ListReturns(c)
  \/ \E c \in DOMAIN calls : DuplicateFetchReturns(c)
  \/ \E c \in DOMAIN calls : PostReturns(c)
  \/ \E c \in DOMAIN calls : FetchReturns(c)
  \/ \E c \in DOMAIN calls : RequestFails(c)
  \/ LockTimeout

SpecReview == Init /\ [][NextReview]_vars

\* the event loop runs every continuation that is ready and every timer
\* that is due, and GitHub answers every request; when calls arrive is the
\* clients' choice
SpecReviewLive ==
  /\ Init
  /\ [][NextReview]_vars
  /\ WF_vars(LockTimeout)
  /\ \A c \in 1..MaxCalls : WF_vars(AwaitLock(c))
  /\ \A c \in 1..MaxCalls : WF_vars(GithubAnswers(c))

\* two calls carry the same idempotency key or the same normalised payload
SameRequest(c, d) ==
  \/ calls[c].idempotencyKey = calls[d].idempotencyKey
  \/ payloadKey(calls[c].event, calls[c].comments)
       = payloadKey(calls[d].event, calls[d].comments)

\* C29: over any sequence or interleaving of postReviewComments calls for one
\* pull request, no two calls that carry the same idempotency key or the
\* same normalised payload both send the POST that creates a review, and a
\* later such call that has returned has returned the response of the call
\* that posted; the first call may be in flight for longer than the 10
\* seconds of the lock.
C29_NoDuplicatePosts ==
  /\ \A c \in reviewPosts : \A d \in reviewPosts :
       c # d => ~SameRequest(c, d)
  /\ \A c \in reviewPosts : \A d \in DOMAIN calls :
       (/\ d > c
        /\ SameRequest(c, d)
        /\ calls[c].pc = "returned"
        /\ calls[d].pc = "returned") => calls[d].result = calls[c].result

\* C30: a call that found the lock active and waits for the first request
\* eventually returns or throws, however the holder of the lock ends.
C30_BlockedCallReturns ==
  \A c \in 1..MaxCalls :
    (c \in DOMAIN calls /\ calls[c].pc = "waiting")
      ~> (c \in DOMAIN calls /\ calls[c].pc \in {"returned", "thrown"})

====
